---- MODULE Spec2Model ----
(***************************************************************************)
(* compliance_sentinal: the rule-based segmenters (chunk_regulations.py,   *)
(* chunking_script.py, pdf_processor.py), the compliance checker           *)
(* (compliance_checker.py) and the correction generator                    *)
(* (correction_generator.py).                                              *)
(*                                                                         *)
(* Python str values are sequences of one-character strings, so that       *)
(* strip(), split(), join() and the regular expressions are computed on    *)
(* characters as the code computes them.                                   *)
(***************************************************************************)
EXTENDS Integers, Sequences, FiniteSets, TLC

(***************************************************************************)
(* Bounds of the model.                                                    *)
(***************************************************************************)
\* longest input text of a segmenter, in lines
MaxLines == 3
\* largest min_words a segmenter is called with
MaxMinWords == 3

(***************************************************************************)
(* Characters and str helpers.                                             *)
(***************************************************************************)
\* Python's None where a str is expected (no str of the model has this element)
None == << "None" >>

DigitChars == {"0", "1", "2", "3", "4", "5", "6", "7", "8", "9"}
SpaceChars == {" ", "\t", "\n", "\r", "\f"}
UpperChars == {"A", "B", "C", "D", "E", "F", "G", "H", "I", "J", "K", "L", "M",
               "N", "O", "P", "Q", "R", "S", "T", "U", "V", "W", "X", "Y", "Z"}
LowerChars == {"a", "b", "c", "d", "e", "f", "g", "h", "i", "j", "k", "l", "m",
               "n", "o", "p", "q", "r", "s", "t", "u", "v", "w", "x", "y", "z"}

\* a character outside ASCII is written as its code point, "U+0410" for the
\* Cyrillic capital A.  The class [\u0410-\u042F\u0401A-Z] of the segmenters'
\* patterns: the range U+0410..U+042F, U+0401 and the Latin capitals
CapitalClass ==
  UpperChars \cup {"U+0401"} \cup
  {"U+0410", "U+0411", "U+0412", "U+0413", "U+0414", "U+0415", "U+0416", "U+0417",
   "U+0418", "U+0419", "U+041A", "U+041B", "U+041C", "U+041D", "U+041E", "U+041F",
   "U+0420", "U+0421", "U+0422", "U+0423", "U+0424", "U+0425", "U+0426", "U+0427",
   "U+0428", "U+0429", "U+042A", "U+042B", "U+042C", "U+042D", "U+042E", "U+042F"}

\* pdf_processor.py adds the Turkish capitals to the class
PdfCapitalClass ==
  CapitalClass \cup {"U+011E", "U+015E", "U+00C7", "U+00D6", "U+00DC", "U+0130"}

\* s[from..to] as a sequence (empty when from > to)
Slice(s, from, to) == IF from > to THEN << >> ELSE SubSeq(s, from, to)

\* first index >= i whose character is not in class (Len(s)+1 when none)
RECURSIVE SkipClass(_, _, _)
SkipClass(s, i, class) ==
  IF i > Len(s) \/ s[i] \notin class THEN i ELSE SkipClass(s, i + 1, class)

\* last index <= i whose character is not in class (0 when none)
RECURSIVE SkipClassBack(_, _, _)
SkipClassBack(s, i, class) ==
  IF i < 1 \/ s[i] \notin class THEN i ELSE SkipClassBack(s, i - 1, class)

\* str.lstrip(), str.rstrip(), str.strip()
LStrip(s) == Slice(s, SkipClass(s, 1, SpaceChars), Len(s))
RStrip(s) == Slice(s, 1, SkipClassBack(s, Len(s), SpaceChars))
Strip(s) == RStrip(LStrip(s))

\* str.split(sep) for a one-character separator: always at least one piece
RECURSIVE SplitOn(_, _)
SplitOn(s, sep) ==
  LET j == SkipClass(s, 1, {c \in {s[k] : k \in 1..Len(s)} : c # sep})
  IN IF j > Len(s) THEN << s >>
     ELSE << Slice(s, 1, j - 1) >> \o SplitOn(Slice(s, j + 1, Len(s)), sep)

\* str.split() without argument: the maximal runs of non-whitespace
RECURSIVE SplitWords(_)
SplitWords(s) ==
  LET a == SkipClass(s, 1, SpaceChars)
      b == SkipClass(s, a, {c \in {s[k] : k \in 1..Len(s)} : c \notin SpaceChars})
  IN IF a > Len(s) THEN << >>
     ELSE << Slice(s, a, b - 1) >> \o SplitWords(Slice(s, b, Len(s)))

\* sep.join(parts)
RECURSIVE Join(_, _)
Join(parts, sep) ==
  IF parts = << >> THEN << >>
  ELSE IF Len(parts) = 1 THEN parts[1]
  ELSE parts[1] \o sep \o Join(Tail(parts), sep)

\* str.endswith('.') whatever the suffixes asked for
EndsWithAny_period(s, class) == s # << >> /\ s[Len(s)] = "."

\* str.endswith((..)) for one-character suffixes
EndsWithAny(s, class) == s # << >> /\ s[Len(s)] \in class

\* s[i:].startswith(p)
StartsWithAt(s, i, p) ==
  i + Len(p) - 1 <= Len(s) /\ Slice(s, i, i + Len(p) - 1) = p

\* all sequences over S of length 0..n
SeqsUpTo(S, n) == UNION {[1..k -> S] : k \in 0..n}

(***************************************************************************)
(* The segmenters.                                                         *)
(***************************************************************************)
VARIABLES seg_variant, text, min_words, lines, line_no, current_chunk, chunks,
          chunk_lines, force_new_chunk, seg_pc, chunk_objects, first_run

\* the compliance check of one uploaded document
VARIABLES regulations_collection, policies_collection, uploaded_chunks, chk_pc, chunk_no,
          regulation_results, policy_results, reg_seen, pol_seen, compliance_report,
          raised, correction_report

\* the discrepancy detector and the correction generator on one pair of texts
VARIABLES det_uploaded, det_reference, det_issue, det_correction, det_pc

\* the processing of source files: PDFProcessor.process_pdf followed by
\* ComplianceChecker.get_uploaded_chunks, and
\* ParagraphDocumentChunker.chunk_single_document
VARIABLES pipeline, pdf_files, file_no, proc_pc, full_text, proc_chunks,
          uploaded_collection, retrieved, proc_log, proc_error

\* the embedding of batches of chunks
VARIABLES emb_variant, emb_chunks, emb_batches, batch_no, attempt, emb_pc, api_calls,
          all_embeddings, failed_chunks

\* the keyword flags of a policy chunk (detect_compliance_hotspots)
VARIABLES hot_text, hotspots, compliance_flags, hot_pc

\* the re-ingestion of a collection of the vector store (reingest_with_documents)
VARIABLES store, collection_name, ing_vectors, ing_rows, ing_columns, ing_pc, ing_i,
          ing_batches, ing_error

segVars == << seg_variant, text, min_words, lines, line_no, current_chunk, chunks,
              chunk_lines, force_new_chunk, seg_pc, chunk_objects, first_run >>

chkVars == << regulations_collection, policies_collection, uploaded_chunks, chk_pc, chunk_no,
              regulation_results, policy_results, reg_seen, pol_seen, compliance_report,
              raised, correction_report >>

detVars == << det_uploaded, det_reference, det_issue, det_correction, det_pc >>

hotVars == << hot_text, hotspots, compliance_flags, hot_pc >>

ingVars == << store, collection_name, ing_vectors, ing_rows, ing_columns, ing_pc, ing_i,
              ing_batches, ing_error >>

procVars == << pipeline, pdf_files, file_no, proc_pc, full_text, proc_chunks,
               uploaded_collection, retrieved, proc_log, proc_error >>

embVars == << emb_variant, emb_chunks, emb_batches, batch_no, attempt, emb_pc, api_calls,
              all_embeddings, failed_chunks >>

vars == << segVars, chkVars, detVars, procVars, embVars, hotVars, ingVars >>

\* a dict that is not there yet
Absent == [absent |-> TRUE]

\* the variables of a part of the program that a specification does not run
SegIdle ==
  /\ seg_variant = "regulation" /\ text = << >> /\ min_words = 1 /\ lines = << >>
  /\ line_no = 0 /\ current_chunk = << >> /\ chunks = << >> /\ chunk_lines = << >>
  /\ force_new_chunk = FALSE /\ seg_pc = "idle" /\ chunk_objects = << >>
  /\ first_run = Absent
ChkIdle ==
  /\ regulations_collection = Absent /\ policies_collection = Absent
  /\ uploaded_chunks = << >> /\ chk_pc = "idle" /\ chunk_no = 0
  /\ regulation_results = Absent /\ policy_results = Absent
  /\ reg_seen = << >> /\ pol_seen = << >> /\ compliance_report = Absent
  /\ raised = "none" /\ correction_report = Absent
DetIdle ==
  /\ det_uploaded = << >> /\ det_reference = << >> /\ det_issue = None
  /\ det_correction = Absent /\ det_pc = "idle"
ProcIdle ==
  /\ pipeline = "process_pdf" /\ pdf_files = << >> /\ file_no = 0 /\ proc_pc = "idle"
  /\ full_text = None /\ proc_chunks = << >> /\ uploaded_collection = << >>
  /\ retrieved = Absent /\ proc_log = << >> /\ proc_error = "none"
EmbIdle ==
  /\ emb_variant = "embed_regulations" /\ emb_chunks = << >> /\ emb_batches = 0
  /\ batch_no = 0 /\ attempt = 0
  /\ emb_pc = "idle" /\ api_calls = << >> /\ all_embeddings = << >> /\ failed_chunks = << >>
HotIdle ==
  /\ hot_text = << >> /\ hotspots = Absent /\ compliance_flags = << >> /\ hot_pc = "idle"
IngIdle ==
  /\ store = Absent /\ collection_name = "regulations" /\ ing_vectors = 0 /\ ing_rows = 0
  /\ ing_columns = {} /\ ing_pc = "idle" /\ ing_i = 0 /\ ing_batches = << >>
  /\ ing_error = "none"

\* index after the leading numeric label \d+\.(?:\d+\.)* that starts at i,
\* or 0 when no label starts there
RECURSIVE LabelGroups(_, _, _)
LabelGroups(s, i, seen) ==
  LET d == SkipClass(s, i, DigitChars)
  IN IF d > i /\ d <= Len(s) /\ s[d] = "."
     THEN LabelGroups(s, d + 1, TRUE)
     ELSE IF seen THEN i ELSE 0

\* the section pattern without its (?:\d+\.)* part: one-level labels only
SectionHeaderMatch_onelevel(s) ==
  LET a == SkipClass(s, 1, SpaceChars)
      d == SkipClass(s, a, DigitChars)
      c == SkipClass(s, d + 1, SpaceChars)
  IN d > a /\ d <= Len(s) /\ s[d] = "." /\ c > d + 1 /\ c <= Len(s) /\ s[c] \in CapitalClass

\* re.match(r'^\s*\d+\.(?:\d+\.)*\s+[A-Z...]', s): chunk_regulations.py and
\* chunking_script.py use the same pattern
SectionHeaderMatch(s) ==
  LET a == SkipClass(s, 1, SpaceChars)
      b == LabelGroups(s, a, FALSE)
      c == IF b = 0 THEN 0 ELSE SkipClass(s, b, SpaceChars)
  IN b # 0 /\ c > b /\ c <= Len(s) /\ s[c] \in CapitalClass

\* chunking_script.py: re.match(r'^[...A-Z]', s) with the class CapitalClass
StartsWithCapital(s) == s # << >> /\ s[1] \in CapitalClass

\* pdf_processor.py: the same match with the class PdfCapitalClass
PdfStartsWithCapital(s) == s # << >> /\ s[1] \in PdfCapitalClass

\* pdf_processor.py: section_pattern = r'^\s*\d+\.(?:\d+\.)*'
SectionNumberMatch(s) == LabelGroups(s, SkipClass(s, 1, SpaceChars), FALSE) # 0

\* the indentation test with three or more leading characters
StartsWithSpaces_three(line) == Len(line) - Len(LStrip(line)) >= 3

\* len(line) - len(line.lstrip()) >= 2
StartsWithSpaces(line) == Len(line) - Len(LStrip(line)) >= 2

\* len(text.split())
WordCount(s) == Len(SplitWords(s))

\* the lines of a chunk joined with nothing between them
ChunkText_nospace(cur) == Strip(Join(cur, << >>))

\* ' '.join(current_chunk).strip()
ChunkText(cur) == Strip(Join(cur, << " " >>))

\* RegulationChunker._flush_chunk with the min_words gate removed
flush_chunk_nogate(cur, out, minw) ==
  IF cur # << >> THEN Append(out, ChunkText(cur)) ELSE out

\* RegulationChunker._flush_chunk
flush_chunk(cur, out, minw) ==
  IF cur # << >>
  THEN IF WordCount(ChunkText(cur)) >= minw THEN Append(out, ChunkText(cur)) ELSE out
  ELSE out

\* ParagraphDocumentChunker.split_into_chunks: the inline "save current chunk"
policy_save_chunk(cur, out, minw) ==
  IF cur # << >>
  THEN IF WordCount(ChunkText(cur)) >= minw THEN Append(out, ChunkText(cur)) ELSE out
  ELSE out

\* PDFProcessor.chunk_text: the inline "save current chunk"
pdf_save_chunk(cur, out, minw) ==
  IF cur # << >>
  THEN IF WordCount(ChunkText(cur)) >= minw THEN Append(out, ChunkText(cur)) ELSE out
  ELSE out

\* re.sub(r'\s+', ' ', line)
RECURSIVE CollapseSpaces(_)
CollapseSpaces(s) ==
  LET j == SkipClass(s, 1, {c \in {s[k] : k \in 1..Len(s)} : c \notin SpaceChars})
  IN IF j > Len(s) THEN s
     ELSE Slice(s, 1, j - 1) \o << " " >>
            \o CollapseSpaces(Slice(s, SkipClass(s, j, SpaceChars), Len(s)))

\* PDFProcessor.clean_text
clean_text(t) ==
  LET ls == SplitOn(t, "\n")
      stripped == [k \in 1..Len(ls) |-> Strip(CollapseSpaces(ls[k]))]
      cleaned_lines == SelectSeq(stripped, LAMBDA l : l # << >>)
  IN Join(cleaned_lines, << "\n" >>)

\* chunk objects of PDFProcessor.chunk_text, numbered from one
ChunkObjects_onebased(out) ==
  [k \in 1..Len(out) |->
     [chunk_id |-> << "uploaded_chunk_", k >>,
      chunk_index |-> k,
      chunk_text |-> out[k],
      word_count |-> WordCount(out[k]),
      chunk_position |-> << k, Len(out) >>,
      total_chunks |-> Len(out)]]

\* chunk objects of PDFProcessor.chunk_text
ChunkObjects(out) ==
  [k \in 1..Len(out) |->
     [chunk_id |-> << "uploaded_chunk_", k - 1 >>,
      chunk_index |-> k - 1,
      chunk_text |-> out[k],
      word_count |-> WordCount(out[k]),
      chunk_position |-> << k, Len(out) >>,
      total_chunks |-> Len(out)]]

\* the lines the input texts are built from
LineVocabulary ==
  { << "1", ".", " ", "A", " ", "a" >>,                  \* "1. A a": section header
    << " ", "1", ".", "2", ".", " ", "A" >>,             \* " 1.2. A": indented header
    << "1", ".", "1", ".", " ", "a", " ", "a" >>,        \* "1.1. a a": label, no capital
    << "A", " ", "a", "." >>,                            \* "A a.": capital, ends with .
    << "a", " ", "a" >>,                                 \* "a a"
    << " ", " ", "a", ";" >>,                            \* "  a;": two leading spaces
    << "U+042F", " ", "a" >>,                            \* Cyrillic capital Ya, then " a"
    << "U+04B2", " ", "a" >>,                            \* Uzbek Cyrillic capital Ha, then " a"
    << >> }                                              \* blank line

SegVariants == {"regulation", "policy", "pdf"}

SegInit ==
  /\ seg_variant \in SegVariants
  /\ text \in {Join(ls, << "\n" >>) : ls \in SeqsUpTo(LineVocabulary, MaxLines)}
  /\ min_words \in 1..MaxMinWords
  /\ lines = << >>
  /\ line_no = 0
  /\ current_chunk = << >>
  /\ chunks = << >>
  /\ chunk_lines = << >>
  /\ force_new_chunk = FALSE
  /\ seg_pc = "start"
  /\ chunk_objects = << >>
  /\ first_run = Absent
  /\ ChkIdle /\ DetIdle /\ ProcIdle /\ EmbIdle /\ HotIdle /\ IngIdle

\* history: the lines of each emitted chunk, in emission order
RecordLines(newChunks) ==
  chunk_lines' = IF Len(newChunks) > Len(chunks)
                 THEN Append(chunk_lines, current_chunk) ELSE chunk_lines

\* RegulationChunker.split_into_chunks: entry
Reg_Start ==
  /\ seg_variant = "regulation" /\ seg_pc = "start"
  /\ lines' = SplitOn(text, "\n")
  /\ line_no' = 1
  /\ current_chunk' = << >>
  /\ chunks' = << >>
  /\ force_new_chunk' = FALSE
  /\ seg_pc' = "loop"
  /\ UNCHANGED << seg_variant, text, min_words, chunk_lines, chunk_objects >>
  /\ UNCHANGED first_run
  /\ UNCHANGED << chkVars, detVars, procVars, embVars, hotVars, ingVars >>

\* RegulationChunker.split_into_chunks: one iteration of the loop over lines
Reg_Line ==
  /\ seg_variant = "regulation" /\ seg_pc = "loop" /\ line_no <= Len(lines)
  /\ LET line == lines[line_no]
         line_stripped == Strip(line)
     IN IF line_stripped = << >>
        THEN UNCHANGED << current_chunk, chunks, chunk_lines, force_new_chunk >>
        ELSE IF SectionHeaderMatch(line_stripped)
        THEN LET out == flush_chunk(current_chunk, chunks, min_words)
             IN /\ chunks' = out
                /\ RecordLines(out)
                /\ current_chunk' = << >>
                /\ force_new_chunk' = FALSE
        ELSE LET split == (force_new_chunk \/ StartsWithSpaces(line)) /\ current_chunk # << >>
                 out == IF split THEN flush_chunk(current_chunk, chunks, min_words) ELSE chunks
             IN /\ chunks' = out
                /\ RecordLines(out)
                /\ current_chunk' = Append(IF split THEN << >> ELSE current_chunk, line_stripped)
                /\ force_new_chunk' = EndsWithAny(line_stripped, {".", ";"})
  /\ line_no' = line_no + 1
  /\ UNCHANGED << seg_variant, text, min_words, lines, seg_pc, chunk_objects >>
  /\ UNCHANGED first_run
  /\ UNCHANGED << chkVars, detVars, procVars, embVars, hotVars, ingVars >>

\* RegulationChunker.split_into_chunks: final flush and return
Reg_Final ==
  /\ seg_variant = "regulation" /\ seg_pc = "loop" /\ line_no > Len(lines)
  /\ LET out == flush_chunk(current_chunk, chunks, min_words)
     IN chunks' = out /\ RecordLines(out)
  /\ seg_pc' = "done"
  /\ UNCHANGED << seg_variant, text, min_words, lines, line_no, current_chunk,
                  force_new_chunk, chunk_objects >>
  /\ UNCHANGED first_run
  /\ UNCHANGED << chkVars, detVars, procVars, embVars, hotVars, ingVars >>

\* ParagraphDocumentChunker.split_into_chunks: entry
Policy_Start ==
  /\ seg_variant = "policy" /\ seg_pc = "start"
  /\ lines' = SplitOn(text, "\n")
  /\ line_no' = 1
  /\ current_chunk' = << >>
  /\ chunks' = << >>
  /\ seg_pc' = "loop"
  /\ UNCHANGED << seg_variant, text, min_words, chunk_lines, force_new_chunk, chunk_objects >>
  /\ UNCHANGED first_run
  /\ UNCHANGED << chkVars, detVars, procVars, embVars, hotVars, ingVars >>

\* ParagraphDocumentChunker.split_into_chunks: one iteration of the loop over lines
Policy_Line ==
  /\ seg_variant = "policy" /\ seg_pc = "loop" /\ line_no <= Len(lines)
  /\ LET line == lines[line_no]
         line_stripped == Strip(line)
     IN IF line_stripped = << >>
        THEN UNCHANGED << current_chunk, chunks, chunk_lines >>
        ELSE IF SectionHeaderMatch(line_stripped)
        THEN LET out == policy_save_chunk(current_chunk, chunks, min_words)
             IN /\ chunks' = out
                /\ RecordLines(out)
                /\ current_chunk' = << >>
        ELSE LET starts_with_spaces == StartsWithSpaces(line)
                 starts_with_capital == StartsWithCapital(line_stripped)
                 should_split == starts_with_spaces
                                   \/ (starts_with_capital /\ current_chunk # << >>)
                 split == should_split /\ current_chunk # << >>
                 out == IF split THEN policy_save_chunk(current_chunk, chunks, min_words)
                        ELSE chunks
             IN /\ chunks' = out
                /\ RecordLines(out)
                /\ current_chunk' = Append(IF split THEN << >> ELSE current_chunk, line_stripped)
  /\ line_no' = line_no + 1
  /\ UNCHANGED << seg_variant, text, min_words, lines, seg_pc, force_new_chunk, chunk_objects >>
  /\ UNCHANGED first_run
  /\ UNCHANGED << chkVars, detVars, procVars, embVars, hotVars, ingVars >>

\* ParagraphDocumentChunker.split_into_chunks: last chunk and return
Policy_Final ==
  /\ seg_variant = "policy" /\ seg_pc = "loop" /\ line_no > Len(lines)
  /\ LET out == policy_save_chunk(current_chunk, chunks, min_words)
     IN chunks' = out /\ RecordLines(out)
  /\ seg_pc' = "done"
  /\ UNCHANGED << seg_variant, text, min_words, lines, line_no, current_chunk,
                  force_new_chunk, chunk_objects >>
  /\ UNCHANGED first_run
  /\ UNCHANGED << chkVars, detVars, procVars, embVars, hotVars, ingVars >>

\* PDFProcessor.chunk_text: clean_text and the split into lines
Pdf_Start ==
  /\ seg_variant = "pdf" /\ seg_pc = "start"
  /\ lines' = SplitOn(clean_text(text), "\n")
  /\ line_no' = 1
  /\ current_chunk' = << >>
  /\ chunks' = << >>
  /\ seg_pc' = "loop"
  /\ UNCHANGED << seg_variant, text, min_words, chunk_lines, force_new_chunk, chunk_objects >>
  /\ UNCHANGED first_run
  /\ UNCHANGED << chkVars, detVars, procVars, embVars, hotVars, ingVars >>

\* PDFProcessor.chunk_text: one iteration of the loop over lines
Pdf_Line ==
  /\ seg_variant = "pdf" /\ seg_pc = "loop" /\ line_no <= Len(lines)
  /\ LET line == lines[line_no]
         line_stripped == Strip(line)
     IN IF line_stripped = << >>
        THEN UNCHANGED << current_chunk, chunks, chunk_lines >>
        ELSE LET starts_with_number == SectionNumberMatch(line_stripped)
                 starts_with_capital == PdfStartsWithCapital(line_stripped)
                 starts_with_spaces == StartsWithSpaces(line)
                 ends_with_period_or_semicolon ==
                   current_chunk # << >>
                     /\ EndsWithAny(RStrip(current_chunk[Len(current_chunk)]), {".", ";"})
                 should_split ==
                   (starts_with_number \/ starts_with_capital \/ starts_with_spaces
                      \/ ends_with_period_or_semicolon) /\ current_chunk # << >>
                 out == IF should_split THEN pdf_save_chunk(current_chunk, chunks, min_words)
                        ELSE chunks
             IN /\ chunks' = out
                /\ RecordLines(out)
                /\ current_chunk' =
                     Append(IF should_split THEN << >> ELSE current_chunk, line_stripped)
  /\ line_no' = line_no + 1
  /\ UNCHANGED << seg_variant, text, min_words, lines, seg_pc, force_new_chunk, chunk_objects >>
  /\ UNCHANGED first_run
  /\ UNCHANGED << chkVars, detVars, procVars, embVars, hotVars, ingVars >>

\* PDFProcessor.chunk_text: last chunk, chunk objects and return
Pdf_Final ==
  /\ seg_variant = "pdf" /\ seg_pc = "loop" /\ line_no > Len(lines)
  /\ LET out == pdf_save_chunk(current_chunk, chunks, min_words)
     IN chunks' = out /\ RecordLines(out) /\ chunk_objects' = ChunkObjects(out)
  /\ seg_pc' = "done"
  /\ UNCHANGED << seg_variant, text, min_words, lines, line_no, current_chunk,
                  force_new_chunk >>
  /\ UNCHANGED first_run
  /\ UNCHANGED << chkVars, detVars, procVars, embVars, hotVars, ingVars >>

SegNext ==
  \/ Reg_Start \/ Reg_Line \/ Reg_Final
  \/ Policy_Start \/ Policy_Line \/ Policy_Final
  \/ Pdf_Start \/ Pdf_Line \/ Pdf_Final

SegSpec == SegInit /\ [][SegNext]_vars

(***************************************************************************)
(* A second run of RegulationChunker / ParagraphDocumentChunker            *)
(* split_into_chunks, on the chunks of the first run joined with spaces.   *)
(***************************************************************************)
\* split_into_chunks(' '.join(chunks), min_words) after a finished first run
Resegment ==
  /\ seg_variant \in {"regulation", "policy"} /\ seg_pc = "done" /\ first_run = Absent
  /\ first_run' = [lines |-> lines, chunks |-> chunks]
  /\ text' = Join(chunks, << " " >>)
  /\ seg_pc' = "start"
  /\ UNCHANGED << seg_variant, min_words, lines, line_no, current_chunk, chunks, chunk_lines,
                  force_new_chunk, chunk_objects >>
  /\ UNCHANGED << chkVars, detVars, procVars, embVars, hotVars, ingVars >>

ResegmentInit == SegInit /\ seg_variant \in {"regulation", "policy"}

ResegmentNext ==
  \/ Reg_Start \/ Reg_Line \/ Reg_Final
  \/ Policy_Start \/ Policy_Line \/ Policy_Final
  \/ Resegment

ResegmentSpec == ResegmentInit /\ [][ResegmentNext]_vars

(***************************************************************************)
(* Numbers.  A Python float is modelled by its value in hundredths (90.0   *)
(* is 9000); the texts of the model carry at most two decimals, so every   *)
(* float() and every comparison of the code is exact here.                 *)
(***************************************************************************)
DigitSeq == << "0", "1", "2", "3", "4", "5", "6", "7", "8", "9" >>
UpperSeq == << "A", "B", "C", "D", "E", "F", "G", "H", "I", "J", "K", "L", "M",
               "N", "O", "P", "Q", "R", "S", "T", "U", "V", "W", "X", "Y", "Z" >>
LowerSeq == << "a", "b", "c", "d", "e", "f", "g", "h", "i", "j", "k", "l", "m",
               "n", "o", "p", "q", "r", "s", "t", "u", "v", "w", "x", "y", "z" >>

DigitVal(c) == (CHOOSE i \in 1..10 : DigitSeq[i] = c) - 1

\* str.lower() and str.upper()
Lower(s) ==
  [k \in 1..Len(s) |->
     IF s[k] \in UpperChars THEN LowerSeq[CHOOSE i \in 1..26 : UpperSeq[i] = s[k]] ELSE s[k]]
Upper(s) ==
  [k \in 1..Len(s) |->
     IF s[k] \in LowerChars THEN UpperSeq[CHOOSE i \in 1..26 : LowerSeq[i] = s[k]] ELSE s[k]]

\* int() of a run of digits
RECURSIVE ParseInt(_)
ParseInt(ds) ==
  IF ds = << >> THEN 0
  ELSE 10 * ParseInt(SubSeq(ds, 1, Len(ds) - 1)) + DigitVal(ds[Len(ds)])

\* whether float(s) succeeds for a string over digits and dots
IsFloatLiteral(s) ==
  /\ \A k \in 1..Len(s) : s[k] \in DigitChars \cup {"."}
  /\ Cardinality({k \in 1..Len(s) : s[k] = "."}) <= 1
  /\ \E k \in 1..Len(s) : s[k] \in DigitChars

\* float(s) in hundredths, for s = digits [. digits]
ParseFloat(s) ==
  LET dot == SkipClass(s, 1, DigitChars)
      frac == Slice(s, dot + 1, Len(s))
      f2 == IF Len(frac) = 0 THEN << "0", "0" >>
            ELSE IF Len(frac) = 1 THEN frac \o << "0" >>
            ELSE SubSeq(frac, 1, 2)
  IN 100 * ParseInt(Slice(s, 1, dot - 1)) + ParseInt(f2)

\* str(n) for an int n >= 0
RECURSIVE IntStr(_)
IntStr(n) == IF n < 10 THEN << DigitSeq[n + 1] >> ELSE IntStr(n \div 10) \o << DigitSeq[(n % 10) + 1] >>

\* str(v) of a float (f-string formatting): "90.0", "85.5", "80.25"
FloatStr(v) ==
  IntStr(v \div 100) \o << "." >> \o
    (IF v % 100 = 0 THEN << "0" >>
     ELSE IF v % 10 = 0 THEN << DigitSeq[((v % 100) \div 10) + 1] >>
     ELSE << DigitSeq[((v % 100) \div 10) + 1], DigitSeq[(v % 10) + 1] >>)

\* round(n / d) to the nearest integer, ties to even (Python's round)
RoundHalfEven(n, d) ==
  LET q == n \div d
      r == n % d
  IN IF 2 * r < d THEN q
     ELSE IF 2 * r > d THEN q + 1
     ELSE IF q % 2 = 0 THEN q ELSE q + 1

(***************************************************************************)
(* ComplianceChecker._check_numerical_discrepancy.                         *)
(***************************************************************************)
W_kalendar == << "k", "a", "l", "e", "n", "d", "a", "r" >>
W_ish == << "i", "s", "h" >>
W_kun == << "k", "u", "n" >>
W_day == << "d", "a", "y" >>
W_foiz == << "f", "o", "i", "z" >>
W_oy == << "o", "y" >>
W_month == << "m", "o", "n", "t", "h" >>
W_yil == << "y", "i", "l" >>
W_year == << "y", "e", "a", "r" >>
W_days == << "d", "a", "y", "s" >>
W_percent == << "p", "e", "r", "c", "e", "n", "t" >>
W_months == << "m", "o", "n", "t", "h", "s" >>
W_years == << "y", "e", "a", "r", "s" >>

\* the keys of number_patterns, in dict order
Concepts == << W_days, W_percent, W_months, W_years >>

\* index after the first of the alternatives that matches at i, or 0
RECURSIVE MatchAlternatives(_, _, _)
MatchAlternatives(s, i, alts) ==
  IF alts = << >> THEN 0
  ELSE IF StartsWithAt(s, i, Head(alts)) THEN i + Len(Head(alts))
  ELSE MatchAlternatives(s, i, Tail(alts))

\* the unit words of a concept, in the order of the pattern's alternation
\* (the Cyrillic alternatives lie outside the ASCII alphabet of the model)
UnitWords(concept) ==
  IF concept = W_days THEN << W_kun, W_day >>
  ELSE IF concept = W_percent THEN << << "%" >>, W_foiz >>
  ELSE IF concept = W_months THEN << W_oy, W_month >>
  ELSE << W_yil, W_year >>

\* x or, when x is 0 (no match), y
OrElse(x, y) == IF x # 0 THEN x ELSE y

\* days: after the modifier (?:kalendar|ish) that ended before m, \s* and
\* the unit; 0 when there was no modifier (m = 0) or no unit follows
UnitAfterModifier(s, m, concept) ==
  IF m = 0 THEN 0
  ELSE MatchAlternatives(s, SkipClass(s, m, SpaceChars), UnitWords(concept))

\* the unit at a, for days behind an optional modifier: index after it, or 0
UnitAt(s, a, concept) ==
  OrElse(UnitAfterModifier(s, IF concept = W_days
                              THEN MatchAlternatives(s, a, << W_kalendar, W_ish >>)
                              ELSE 0, concept),
         MatchAlternatives(s, a, UnitWords(concept)))

\* \s* and the unit after a number that ends before numEnd: index after the
\* unit, or 0
UnitAfter(s, numEnd, concept) == UnitAt(s, SkipClass(s, numEnd, SpaceChars), concept)

\* percent: (?:\.\d+)? after the digits that end before d
FractionEnd(s, d, concept) ==
  IF concept = W_percent /\ d <= Len(s) /\ s[d] = "."
     /\ SkipClass(s, d + 1, DigitChars) > d + 1
  THEN SkipClass(s, d + 1, DigitChars) ELSE d

NoMatch == [end |-> 0, group |-> << >>]

\* the match of a number from i whose digits end before d and whose
\* fraction ends before fd, with the unit found after the fraction (ufd) or
\* after the digits (ud); the fraction is given back when no unit follows it
NumberWithUnit(s, i, d, fd, ufd, ud) ==
  IF d = i THEN NoMatch
  ELSE IF ufd # 0 THEN [end |-> ufd, group |-> Slice(s, i, fd - 1)]
  ELSE IF fd # d /\ ud # 0 THEN [end |-> ud, group |-> Slice(s, i, d - 1)]
  ELSE NoMatch

\* as PatternMatchAt, given the end d of the digits and fd of the fraction
PatternMatchFrom(s, i, concept, d, fd) ==
  NumberWithUnit(s, i, d, fd, UnitAfter(s, fd, concept), UnitAfter(s, d, concept))

\* one match of number_patterns[concept] starting exactly at i:
\* [end |-> index after the match, group |-> the captured number], end = 0
\* when the pattern does not match at i
PatternMatchAt(s, i, concept) ==
  PatternMatchFrom(s, i, concept, SkipClass(s, i, DigitChars),
                   FractionEnd(s, SkipClass(s, i, DigitChars), concept))

\* re.findall(number_patterns[concept], s): the captured numbers of the
\* non-overlapping matches, scanning from i
RECURSIVE FindAll(_, _, _)
\* the scan after the attempt m at i
FindAllAfter(s, i, concept, m) ==
  IF m.end = 0 THEN FindAll(s, i + 1, concept)
  ELSE << m.group >> \o FindAll(s, m.end, concept)

FindAll(s, i, concept) ==
  IF i > Len(s) THEN << >> ELSE FindAllAfter(s, i, concept, PatternMatchAt(s, i, concept))

S_UploadedSays == << ":", " ", "U", "p", "l", "o", "a", "d", "e", "d", " ", "s", "a", "y", "s", " " >>
S_ReferenceSays == << ",", " ", "r", "e", "f", "e", "r", "e", "n", "c", "e", " ", "s", "a", "y", "s", " " >>
S_Bar == << " ", "|", " " >>

\* f"{concept.upper()}: Uploaded says {v1}, reference says {v2}"
IssueEntry(concept, v1, v2) ==
  Upper(concept) \o S_UploadedSays \o FloatStr(v1) \o S_ReferenceSays \o FloatStr(v2)

\* the entries of one concept: for v1 in vals1: for v2 in vals2: if v1 != v2
RECURSIVE PairEntries(_, _, _, _, _)
PairEntries(concept, vals1, vals2, a, b) ==
  IF a > Len(vals1) THEN << >>
  ELSE IF b > Len(vals2) THEN PairEntries(concept, vals1, vals2, a + 1, 1)
  ELSE (IF vals1[a] # vals2[b] THEN << IssueEntry(concept, vals1[a], vals2[b]) >> ELSE << >>)
         \o PairEntries(concept, vals1, vals2, a, b + 1)

\* vals = [float(n) for n in nums]
FloatList(nums) == [k \in 1..Len(nums) |-> ParseFloat(nums[k])]

\* the comparison of _check_numerical_discrepancy with uploaded and reference swapped
compare_numbers_swapped(concept, nums1, nums2) ==
  IF nums1 # << >> /\ nums2 # << >>
  THEN PairEntries(concept, FloatList(nums2), FloatList(nums1), 1, 1)
  ELSE << >>

\* the comparison of _check_numerical_discrepancy on the first value of each
\* text only
compare_numbers_firstonly(concept, nums1, nums2) ==
  IF nums1 # << >> /\ nums2 # << >>
  THEN PairEntries(concept, << ParseFloat(nums1[1]) >>, << ParseFloat(nums2[1]) >>, 1, 1)
  ELSE << >>

\* _check_numerical_discrepancy: "if nums1 and nums2" and the comparison
compare_numbers(concept, nums1, nums2) ==
  IF nums1 # << >> /\ nums2 # << >>
  THEN PairEntries(concept, FloatList(nums1), FloatList(nums2), 1, 1)
  ELSE << >>

\* _check_numerical_discrepancy: the body of the loop over number_patterns
concept_issues(concept, text1, text2) ==
  compare_numbers(concept, FindAll(Lower(text1), 1, concept), FindAll(Lower(text2), 1, concept))

\* " | ".join(issues) if issues else None
join_issues(issues) == IF issues # << >> THEN Join(issues, S_Bar) ELSE None

\* ComplianceChecker._check_numerical_discrepancy
check_numerical_discrepancy(text1, text2) ==
  join_issues(concept_issues(Concepts[1], text1, text2)
                \o concept_issues(Concepts[2], text1, text2)
                \o concept_issues(Concepts[3], text1, text2)
                \o concept_issues(Concepts[4], text1, text2))

(***************************************************************************)
(* ComplianceChecker: check_against_regulations, check_against_policies,   *)
(* _calculate_compliance_score, generate_report.                           *)
(*                                                                         *)
(* A distance is an integer number of 1/10000 (0.3 is 3000); a score is an *)
(* integer number of hundredths of a percent (75.0 is 7500).               *)
(***************************************************************************)
\* self.STRONG_MATCH = 0.3
STRONG_MATCH == 3000
\* self.WEAK_MATCH = 0.5
WEAK_MATCH == 5000
\* n_results=3 of the two collection queries
n_results == 3

\* x[:200] + "..." if len(x) > 200 else x
Truncate200(x) == IF Len(x) > 200 THEN SubSeq(x, 1, 200) \o << ".", ".", "." >> ELSE x

\* round(d, 3) of a distance
Round3(d) == 10 * RoundHalfEven(d, 10)

\* the ranked answers a collection can give to one query: at most n_results
\* of its stored (distance, document) pairs, nearest first, each at most once
QueryResults(collection) ==
  {h \in SeqsUpTo(collection, n_results) :
     /\ \A k \in 1..(Len(h) - 1) : h[k].distance <= h[k + 1].distance
     /\ \A j, k \in 1..Len(h) : j # k => h[j] # h[k]}

\* _calculate_compliance_score with the violations left out of the total
calculate_compliance_score_noviolations(results) ==
  LET total == Len(results.matches) + Len(results.weak_matches)
  IN IF total = 0 THEN 0
     ELSE RoundHalfEven(10000 * (2 * Len(results.matches) + Len(results.weak_matches)),
                        2 * total)

\* ComplianceChecker._calculate_compliance_score
calculate_compliance_score(results) ==
  LET total == Len(results.matches) + Len(results.weak_matches) + Len(results.violations)
  IN IF total = 0 THEN 0
     ELSE RoundHalfEven(10000 * (2 * Len(results.matches) + Len(results.weak_matches)),
                        2 * total)

\* the summary of check_against_regulations / check_against_policies
results_summary(results) ==
  [total_strong_matches |-> Len(results.matches),
   total_weak_matches |-> Len(results.weak_matches),
   total_violations |-> Len(results.violations),
   compliance_score |-> calculate_compliance_score(results)]

\* check_against_regulations: match_info of one candidate
regulation_match_info(chunk, hit) ==
  [uploaded_chunk_id |-> chunk.id,
   uploaded_text |-> Truncate200(chunk.text),
   matched_regulation |-> Truncate200(hit.document),
   regulation_source |-> hit.document_filename,
   similarity_score |-> Round3(10000 - hit.distance),
   distance |-> Round3(hit.distance),
   potential_issue |-> check_numerical_discrepancy(chunk.text, hit.document)]

\* check_against_policies: match_info of one candidate
policy_match_info(chunk, hit) ==
  [uploaded_chunk_id |-> chunk.id,
   uploaded_text |-> Truncate200(chunk.text),
   matched_policy |-> Truncate200(hit.document),
   policy_source |-> hit.document_filename,
   similarity_score |-> Round3(10000 - hit.distance),
   distance |-> Round3(hit.distance),
   potential_issue |-> check_numerical_discrepancy(chunk.text, hit.document)]

\* "Categorize match" with <= in place of < at both thresholds
categorize_match_inclusive(results, distance, match_info) ==
  IF distance <= STRONG_MATCH
  THEN [results EXCEPT !.matches = Append(@, match_info)]
  ELSE IF distance <= WEAK_MATCH
  THEN [results EXCEPT !.weak_matches = Append(@, match_info)]
  ELSE IF match_info.potential_issue # None
  THEN [results EXCEPT !.violations = Append(@, match_info)]
  ELSE results

\* check_against_regulations: "Categorize match"
categorize_regulation_match(results, distance, match_info) ==
  IF distance < STRONG_MATCH
  THEN [results EXCEPT !.matches = Append(@, match_info)]
  ELSE IF distance < WEAK_MATCH
  THEN [results EXCEPT !.weak_matches = Append(@, match_info)]
  ELSE IF match_info.potential_issue # None
  THEN [results EXCEPT !.violations = Append(@, match_info)]
  ELSE results

\* check_against_policies: "Categorize match"
categorize_policy_match(results, distance, match_info) ==
  IF distance < STRONG_MATCH
  THEN [results EXCEPT !.matches = Append(@, match_info)]
  ELSE IF distance < WEAK_MATCH
  THEN [results EXCEPT !.weak_matches = Append(@, match_info)]
  ELSE IF match_info.potential_issue # None
  THEN [results EXCEPT !.violations = Append(@, match_info)]
  ELSE results

\* check_against_regulations: the loop over the candidates of one chunk
RECURSIVE analyze_regulation_hits(_, _, _)
analyze_regulation_hits(chunk, hits, results) ==
  IF hits = << >> THEN results
  ELSE IF Head(hits).document = None
  THEN analyze_regulation_hits(chunk, Tail(hits), results)
  ELSE analyze_regulation_hits(chunk, Tail(hits),
         categorize_regulation_match(results, Head(hits).distance,
                                     regulation_match_info(chunk, Head(hits))))

\* check_against_policies: the loop over the candidates of one chunk
RECURSIVE analyze_policy_hits(_, _, _)
analyze_policy_hits(chunk, hits, results) ==
  IF hits = << >> THEN results
  ELSE IF Head(hits).document = None
  THEN analyze_policy_hits(chunk, Tail(hits), results)
  ELSE analyze_policy_hits(chunk, Tail(hits),
         categorize_policy_match(results, Head(hits).distance,
                                 policy_match_info(chunk, Head(hits))))

\* history: what was retrieved for a chunk, with the detector's result
SeenHits(chunk, hits) ==
  [k \in 1..Len(hits) |->
     [chunk_id |-> chunk.id, distance |-> hits[k].distance, document |-> hits[k].document,
      issue |-> IF hits[k].document = None THEN None
                ELSE check_numerical_discrepancy(chunk.text, hits[k].document)]]

\* d.get(key, default)
DictGet(d, key, default) == IF key \in DOMAIN d THEN d[key] ELSE default

\* overall_status with > in place of >= at both thresholds
overall_status_strict(reg_score, policy_score) ==
  IF reg_score + policy_score > 2 * 8000 THEN "PASS"
  ELSE IF reg_score + policy_score > 2 * 6000 THEN "WARNING"
  ELSE "FAIL"

\* generate_report: overall_status from the two scores
overall_status(reg_score, policy_score) ==
  IF reg_score + policy_score >= 2 * 8000 THEN "PASS"
  ELSE IF reg_score + policy_score >= 2 * 6000 THEN "WARNING"
  ELSE "FAIL"

\* round(overall_score, 2) of the mean of two scores given in hundredths.  A
\* mean that ends in 5 thousandths is held as the nearest binary double,
\* just above or just below the tie, and rounds to either neighbour.
round_mean(score_sum) ==
  IF score_sum % 2 = 0 THEN {score_sum \div 2}
  ELSE {score_sum \div 2, score_sum \div 2 + 1}

\* ComplianceChecker.generate_report, once both summaries are there;
\* rounded is the value of round(overall_score, 2)
compliance_report_of(reg_res, pol_res, rounded) ==
  LET reg_score == DictGet(reg_res.summary, "compliance_score", 0)
      policy_score == DictGet(pol_res.summary, "compliance_score", 0)
  IN [overall_status |-> overall_status(reg_score, policy_score),
      overall_compliance_score |-> rounded,
      regulation_compliance |->
        [score |-> reg_score,
         total_violations |-> DictGet(reg_res.summary, "total_violations", 0),
         violations |-> DictGet(reg_res, "violations", << >>)],
      policy_compliance |->
        [score |-> policy_score,
         total_violations |-> DictGet(pol_res.summary, "total_violations", 0),
         violations |-> DictGet(pol_res, "violations", << >>)],
      detailed_findings |->
        [regulation_matches |-> Len(DictGet(reg_res, "matches", << >>)),
         regulation_weak_matches |-> Len(DictGet(reg_res, "weak_matches", << >>)),
         policy_matches |-> Len(DictGet(pol_res, "matches", << >>)),
         policy_weak_matches |-> Len(DictGet(pol_res, "weak_matches", << >>))]]

(***************************************************************************)
(* CorrectionGenerator.  The current_phrase / corrected_phrase of a        *)
(* correction item (_find_phrase_with_value) are not modelled.             *)
(***************************************************************************)
\* \w of the issue template
WordChars == DigitChars \cup UpperChars \cup LowerChars \cup {"_"}

S_UploadedSaysSp == << "U", "p", "l", "o", "a", "d", "e", "d", " ", "s", "a", "y", "s", " " >>
S_ReferenceSaysSp == << "r", "e", "f", "e", "r", "e", "n", "c", "e", " ", "s", "a", "y", "s", " " >>

\* re.match(r'(\w+):\s*Uploaded says ([\d.]+),\s*reference says ([\d.]+)', s)
IssueTemplateMatch(s) ==
  LET w == SkipClass(s, 1, WordChars)
      a == SkipClass(s, w + 1, SpaceChars)
      v1 == a + Len(S_UploadedSaysSp)
      e1 == SkipClass(s, v1, DigitChars \cup {"."})
      b == SkipClass(s, e1 + 1, SpaceChars)
      v2 == b + Len(S_ReferenceSaysSp)
      e2 == SkipClass(s, v2, DigitChars \cup {"."})
      ok == /\ w > 1 /\ w <= Len(s) /\ s[w] = ":"
            /\ StartsWithAt(s, a, S_UploadedSaysSp)
            /\ e1 > v1 /\ e1 <= Len(s) /\ s[e1] = ","
            /\ StartsWithAt(s, b, S_ReferenceSaysSp)
            /\ e2 > v2
  IN IF ok THEN [matched |-> TRUE, type |-> Slice(s, 1, w - 1),
                 uploaded |-> Slice(s, v1, e1 - 1), correct |-> Slice(s, v2, e2 - 1)]
     ELSE [matched |-> FALSE, type |-> << >>, uploaded |-> << >>, correct |-> << >>]

\* abs(float(a) - float(b)) in hundredths
AbsDiff(a, b) ==
  IF ParseFloat(a) >= ParseFloat(b) THEN ParseFloat(a) - ParseFloat(b)
  ELSE ParseFloat(b) - ParseFloat(a)

\* _determine_severity with > in place of >= in the days rule
determine_severity_days_strict(value_type, current, correct) ==
  IF ~(IsFloatLiteral(current) /\ IsFloatLiteral(correct)) THEN "MEDIUM"
  ELSE IF value_type = W_percent
  THEN (IF AbsDiff(current, correct) >= 500 THEN "CRITICAL"
        ELSE IF AbsDiff(current, correct) >= 100 THEN "HIGH"
        ELSE "MEDIUM")
  ELSE IF value_type = W_days
  THEN (IF AbsDiff(current, correct) > 500 THEN "HIGH" ELSE "MEDIUM")
  ELSE "MEDIUM"

\* _determine_severity with the days rule left out
determine_severity_days_medium(value_type, current, correct) ==
  IF ~(IsFloatLiteral(current) /\ IsFloatLiteral(correct)) THEN "MEDIUM"
  ELSE IF value_type = W_percent
  THEN (IF AbsDiff(current, correct) >= 500 THEN "CRITICAL"
        ELSE IF AbsDiff(current, correct) >= 100 THEN "HIGH"
        ELSE "MEDIUM")
  ELSE "MEDIUM"

\* CorrectionGenerator._determine_severity
determine_severity(value_type, current, correct) ==
  IF ~(IsFloatLiteral(current) /\ IsFloatLiteral(correct)) THEN "MEDIUM"
  ELSE IF value_type = W_percent
  THEN (IF AbsDiff(current, correct) >= 500 THEN "CRITICAL"
        ELSE IF AbsDiff(current, correct) >= 100 THEN "HIGH"
        ELSE "MEDIUM")
  ELSE IF value_type = W_days
  THEN (IF AbsDiff(current, correct) >= 500 THEN "HIGH" ELSE "MEDIUM")
  ELSE "MEDIUM"

\* CorrectionGenerator._get_unit_name
get_unit_name(value_type) ==
  IF value_type = W_days THEN W_kalendar \o << " " >> \o W_kun
  ELSE IF value_type = W_percent THEN << "%" >>
  ELSE IF value_type = W_months THEN W_oy
  ELSE IF value_type = W_years THEN W_yil
  ELSE << >>

\* the correction items of the segments with >= 100 in the difference guard
RECURSIVE segment_corrections_inclusive(_)
segment_corrections_inclusive(issues) ==
  IF issues = << >> THEN << >>
  ELSE LET m == IssueTemplateMatch(Strip(Head(issues)))
           value_type == Lower(m.type)
           skip == /\ IsFloatLiteral(m.uploaded) /\ IsFloatLiteral(m.correct)
                   /\ AbsDiff(m.uploaded, m.correct) >= 100 * 100
       IN (IF m.matched /\ ~skip
           THEN << [field |-> value_type,
                    current_value |-> m.uploaded,
                    correct_value |-> m.correct,
                    severity |-> determine_severity(value_type, m.uploaded, m.correct)] >>
           ELSE << >>) \o segment_corrections_inclusive(Tail(issues))

\* the correction items of the segments up to the first one that does not
\* match the template
RECURSIVE segment_corrections_stop(_)
segment_corrections_stop(issues) ==
  IF issues = << >> THEN << >>
  ELSE LET m == IssueTemplateMatch(Strip(Head(issues)))
           value_type == Lower(m.type)
           skip == /\ IsFloatLiteral(m.uploaded) /\ IsFloatLiteral(m.correct)
                   /\ AbsDiff(m.uploaded, m.correct) > 100 * 100
       IN IF ~m.matched THEN << >> ELSE
          (IF m.matched /\ ~skip
           THEN << [field |-> value_type,
                    current_value |-> m.uploaded,
                    correct_value |-> m.correct,
                    severity |-> determine_severity(value_type, m.uploaded, m.correct)] >>
           ELSE << >>) \o segment_corrections_stop(Tail(issues))

\* _parse_issue_description: the correction items of the segments, before
\* the removal of duplicates
RECURSIVE segment_corrections(_)
segment_corrections(issues) ==
  IF issues = << >> THEN << >>
  ELSE LET m == IssueTemplateMatch(Strip(Head(issues)))
           value_type == Lower(m.type)
           skip == /\ IsFloatLiteral(m.uploaded) /\ IsFloatLiteral(m.correct)
                   /\ AbsDiff(m.uploaded, m.correct) > 100 * 100
       IN (IF m.matched /\ ~skip
           THEN << [field |-> value_type,
                    current_value |-> m.uploaded,
                    correct_value |-> m.correct,
                    severity |-> determine_severity(value_type, m.uploaded, m.correct)] >>
           ELSE << >>) \o segment_corrections(Tail(issues))

\* _parse_issue_description: "Remove duplicates"
RECURSIVE unique_corrections(_, _)
unique_corrections(corrections, seen) ==
  IF corrections = << >> THEN << >>
  ELSE LET c == Head(corrections)
           key == << c.field, c.current_value, c.correct_value >>
       IN IF key \in seen THEN unique_corrections(Tail(corrections), seen)
          ELSE << c >> \o unique_corrections(Tail(corrections), seen \cup {key})

\* CorrectionGenerator._parse_issue_description
parse_issue_description(issue, uploaded_text, reference_text) ==
  unique_corrections(segment_corrections(SplitOn(issue, "|")), {})

\* CorrectionGenerator._extract_section_number:
\* re.match(r'^(\d+\.(?:\d+\.)*\d*)', text.strip())
extract_section_number(t) ==
  LET s == Strip(t)
      g == LabelGroups(s, 1, FALSE)
  IN IF g = 0 THEN << "unknown" >> ELSE Slice(s, 1, SkipClass(s, g, DigitChars) - 1)

\* CorrectionGenerator.extract_correct_value
extract_correct_value(violation) ==
  LET uploaded_text == DictGet(violation, "uploaded_text", << >>)
      reg_text == DictGet(violation, "matched_regulation", None)
      matched_text == IF reg_text # None /\ reg_text # << >> THEN reg_text
                      ELSE DictGet(violation, "matched_policy", << >>)
      potential_issue == DictGet(violation, "potential_issue", << >>)
      reg_source == DictGet(violation, "regulation_source", None)
  IN [section_id |-> extract_section_number(uploaded_text),
      violation_type |-> IF "matched_regulation" \in DOMAIN violation
                         THEN "regulation" ELSE "policy",
      source_document |-> IF reg_source # None /\ reg_source # << >> THEN reg_source
                          ELSE DictGet(violation, "policy_source", None),
      current_text |-> uploaded_text,
      issue_description |-> potential_issue,
      corrections |-> IF potential_issue # None /\ potential_issue # << >>
                      THEN parse_issue_description(potential_issue, uploaded_text, matched_text)
                      ELSE << >>]

\* _categorize_correction: the correction_entry of one correction item
correction_entry(correction, corr) ==
  [section |-> correction.section_id,
   violation_type |-> correction.violation_type,
   source_document |-> correction.source_document,
   field |-> corr.field,
   current_value |-> corr.current_value \o << " " >> \o get_unit_name(corr.field),
   correct_value |-> corr.correct_value \o << " " >> \o get_unit_name(corr.field),
   action_required |-> << corr.current_value, corr.correct_value >>]

\* one iteration of _categorize_correction that counts a HIGH entry as medium
categorize_one_miscount(correction, corr, report) ==
  IF corr.severity = "CRITICAL"
  THEN [report EXCEPT !.critical_corrections = Append(@, correction_entry(correction, corr)),
                      !.summary.critical_count = @ + 1]
  ELSE IF corr.severity = "HIGH"
  THEN [report EXCEPT !.high_priority_corrections = Append(@, correction_entry(correction, corr)),
                      !.summary.medium_count = @ + 1]
  ELSE [report EXCEPT !.medium_priority_corrections = Append(@, correction_entry(correction, corr)),
                      !.summary.medium_count = @ + 1]

\* _categorize_correction: one iteration of the loop over correction['corrections']
categorize_one(correction, corr, report) ==
  IF corr.severity = "CRITICAL"
  THEN [report EXCEPT !.critical_corrections = Append(@, correction_entry(correction, corr)),
                      !.summary.critical_count = @ + 1]
  ELSE IF corr.severity = "HIGH"
  THEN [report EXCEPT !.high_priority_corrections = Append(@, correction_entry(correction, corr)),
                      !.summary.high_count = @ + 1]
  ELSE [report EXCEPT !.medium_priority_corrections = Append(@, correction_entry(correction, corr)),
                      !.summary.medium_count = @ + 1]

\* CorrectionGenerator._categorize_correction
RECURSIVE categorize_from(_, _, _)
categorize_from(correction, k, report) ==
  IF k > Len(correction.corrections) THEN report
  ELSE categorize_from(correction, k + 1,
                       categorize_one(correction, correction.corrections[k], report))
categorize_correction(correction, report) == categorize_from(correction, 1, report)

\* generate_correction_report: a loop over violations
RECURSIVE process_violations(_, _)
process_violations(violations, report) ==
  IF violations = << >> THEN report
  ELSE process_violations(Tail(violations),
                          categorize_correction(extract_correct_value(Head(violations)), report))

\* CorrectionGenerator.generate_correction_report
generate_correction_report(creport) ==
  LET empty == [overall_status |-> creport.overall_status,
                overall_compliance_score |-> creport.overall_compliance_score,
                total_corrections_needed |-> 0,
                critical_corrections |-> << >>,
                high_priority_corrections |-> << >>,
                medium_priority_corrections |-> << >>,
                summary |-> [critical_count |-> 0, high_count |-> 0, medium_count |-> 0]]
      reg_violations == DictGet(DictGet(creport, "regulation_compliance", << >>),
                                "violations", << >>)
      policy_violations == DictGet(DictGet(creport, "policy_compliance", << >>),
                                   "violations", << >>)
      filled == process_violations(policy_violations, process_violations(reg_violations, empty))
  IN [filled EXCEPT !.total_corrections_needed =
        filled.summary.critical_count + filled.summary.high_count + filled.summary.medium_count]

(***************************************************************************)
(* The compliance check of one uploaded document, as app.py and main() of  *)
(* compliance_checker.py run it: check_against_regulations,                *)
(* check_against_policies, generate_report, generate_correction_report.    *)
(***************************************************************************)
\* most chunks of an uploaded document
MaxChunks == 1
\* most strong, weak and violation records of the results drawn for generate_report
MaxCount == 3
\* most phrases of the two texts given to the discrepancy detector, together
MaxPhrases == 3

T_85 == << "8", "5", " ", "%" >>
T_80 == << "8", "0", " ", "%" >>

\* uploaded chunks as get_uploaded_chunks returns them, in chunk_index order
UploadedDoc(n) == [k \in 1..n |-> [id |-> << "uploaded_chunk_", k - 1 >>, text |-> T_85]]

\* a collection that could not be loaded (None) and one that was
Unavailable == [available |-> FALSE]
Collection(hits) == [available |-> TRUE, hits |-> hits]

\* (distance, document) pairs at and next to the two thresholds, with a
\* numeric mismatch against the uploaded text; without one just below 0.3
\* and at 0.5; one without document and one with the empty document
RichHits(file) ==
  {[distance |-> d, document |-> T_80, document_filename |-> << file >>] :
     d \in {2996, 3000, 4996, 5000}}
    \cup {[distance |-> d, document |-> T_85, document_filename |-> << file >>] :
            d \in {2996, 5000}}
    \cup {[distance |-> 2996, document |-> None, document_filename |-> << file >>],
          [distance |-> 2996, document |-> << >>, document_filename |-> << file >>]}

\* a strong match, a weak match and a violation
PoorHits(file) ==
  {[distance |-> d, document |-> T_80, document_filename |-> << file >>] :
     d \in {2000, 4000, 6000}}

Scenarios ==
  { << Collection(RichHits("regulation.pdf")), Unavailable >>,
    << Unavailable, Collection(RichHits("policy.pdf")) >>,
    << Collection(PoorHits("regulation.pdf")), Collection(PoorHits("policy.pdf")) >>,
    << Unavailable, Unavailable >> }

Init ==
  /\ \E sc \in Scenarios : regulations_collection = sc[1] /\ policies_collection = sc[2]
  /\ uploaded_chunks \in {UploadedDoc(n) : n \in 0..MaxChunks}
  /\ chk_pc = "check_against_regulations"
  /\ chunk_no = 0
  /\ regulation_results = Absent
  /\ policy_results = Absent
  /\ reg_seen = << >>
  /\ pol_seen = << >>
  /\ compliance_report = Absent
  /\ raised = "none"
  /\ correction_report = Absent
  /\ SegIdle /\ DetIdle /\ ProcIdle /\ EmbIdle /\ HotIdle /\ IngIdle

\* check_against_regulations: the collection guard and the empty results
CheckRegulations_Start ==
  /\ chk_pc = "check_against_regulations"
  /\ IF ~regulations_collection.available
     THEN /\ regulation_results' = [error |-> "Regulations collection not available"]
          /\ chk_pc' = "check_against_policies"
          /\ UNCHANGED chunk_no
     ELSE /\ regulation_results' = [total_chunks_checked |-> Len(uploaded_chunks),
                                    matches |-> << >>, weak_matches |-> << >>,
                                    violations |-> << >>, summary |-> << >>]
          /\ chunk_no' = 1
          /\ chk_pc' = "regulations_loop"
  /\ UNCHANGED << regulations_collection, policies_collection, uploaded_chunks, policy_results,
                  reg_seen, pol_seen, compliance_report, raised, correction_report >>
  /\ UNCHANGED << segVars, detVars, procVars, embVars, hotVars, ingVars >>

\* check_against_regulations: one chunk, its query and its candidates
CheckRegulations_Chunk ==
  /\ chk_pc = "regulations_loop" /\ chunk_no <= Len(uploaded_chunks)
  /\ \E hits \in QueryResults(regulations_collection.hits) :
       /\ regulation_results' =
            analyze_regulation_hits(uploaded_chunks[chunk_no], hits, regulation_results)
       /\ reg_seen' = reg_seen \o SeenHits(uploaded_chunks[chunk_no], hits)
  /\ chunk_no' = chunk_no + 1
  /\ UNCHANGED << regulations_collection, policies_collection, uploaded_chunks, chk_pc,
                  policy_results, pol_seen, compliance_report, raised, correction_report >>
  /\ UNCHANGED << segVars, detVars, procVars, embVars, hotVars, ingVars >>

\* check_against_regulations: the summary and the return
CheckRegulations_Summary ==
  /\ chk_pc = "regulations_loop" /\ chunk_no > Len(uploaded_chunks)
  /\ regulation_results' =
       [regulation_results EXCEPT !.summary = results_summary(regulation_results)]
  /\ chk_pc' = "check_against_policies"
  /\ UNCHANGED << regulations_collection, policies_collection, uploaded_chunks, chunk_no,
                  policy_results, reg_seen, pol_seen, compliance_report, raised,
                  correction_report >>
  /\ UNCHANGED << segVars, detVars, procVars, embVars, hotVars, ingVars >>

\* check_against_policies: the collection guard and the empty results
CheckPolicies_Start ==
  /\ chk_pc = "check_against_policies"
  /\ IF ~policies_collection.available
     THEN /\ policy_results' = [error |-> "Bank policies collection not available"]
          /\ chk_pc' = "generate_report"
          /\ UNCHANGED chunk_no
     ELSE /\ policy_results' = [total_chunks_checked |-> Len(uploaded_chunks),
                                matches |-> << >>, weak_matches |-> << >>,
                                violations |-> << >>, missing_clauses |-> << >>,
                                summary |-> << >>]
          /\ chunk_no' = 1
          /\ chk_pc' = "policies_loop"
  /\ UNCHANGED << regulations_collection, policies_collection, uploaded_chunks,
                  regulation_results, reg_seen, pol_seen, compliance_report, raised,
                  correction_report >>
  /\ UNCHANGED << segVars, detVars, procVars, embVars, hotVars, ingVars >>

\* check_against_policies: one chunk, its query and its candidates
CheckPolicies_Chunk ==
  /\ chk_pc = "policies_loop" /\ chunk_no <= Len(uploaded_chunks)
  /\ \E hits \in QueryResults(policies_collection.hits) :
       /\ policy_results' = analyze_policy_hits(uploaded_chunks[chunk_no], hits, policy_results)
       /\ pol_seen' = pol_seen \o SeenHits(uploaded_chunks[chunk_no], hits)
  /\ chunk_no' = chunk_no + 1
  /\ UNCHANGED << regulations_collection, policies_collection, uploaded_chunks, chk_pc,
                  regulation_results, reg_seen, compliance_report, raised, correction_report >>
  /\ UNCHANGED << segVars, detVars, procVars, embVars, hotVars, ingVars >>

\* check_against_policies: the summary and the return
CheckPolicies_Summary ==
  /\ chk_pc = "policies_loop" /\ chunk_no > Len(uploaded_chunks)
  /\ policy_results' = [policy_results EXCEPT !.summary = results_summary(policy_results)]
  /\ chk_pc' = "generate_report"
  /\ UNCHANGED << regulations_collection, policies_collection, uploaded_chunks, chunk_no,
                  regulation_results, reg_seen, pol_seen, compliance_report, raised,
                  correction_report >>
  /\ UNCHANGED << segVars, detVars, procVars, embVars, hotVars, ingVars >>

\* ComplianceChecker.generate_report: regulation_results['summary'] and
\* policy_results['summary'] raise KeyError on a dict without that key
GenerateReport ==
  /\ chk_pc = "generate_report"
  /\ IF "summary" \notin DOMAIN regulation_results \/ "summary" \notin DOMAIN policy_results
     THEN /\ raised' = "KeyError"
          /\ chk_pc' = "raised"
          /\ UNCHANGED compliance_report
     ELSE /\ \E rounded \in round_mean(regulation_results.summary.compliance_score
                                         + policy_results.summary.compliance_score) :
               compliance_report' =
                 compliance_report_of(regulation_results, policy_results, rounded)
          /\ chk_pc' = "generate_correction_report"
          /\ UNCHANGED raised
  /\ UNCHANGED << regulations_collection, policies_collection, uploaded_chunks, chunk_no,
                  regulation_results, policy_results, reg_seen, pol_seen, correction_report >>
  /\ UNCHANGED << segVars, detVars, procVars, embVars, hotVars, ingVars >>

\* CorrectionGenerator.generate_correction_report on the compliance report
GenerateCorrectionReport ==
  /\ chk_pc = "generate_correction_report"
  /\ correction_report' = generate_correction_report(compliance_report)
  /\ chk_pc' = "done"
  /\ UNCHANGED << regulations_collection, policies_collection, uploaded_chunks, chunk_no,
                  regulation_results, policy_results, reg_seen, pol_seen, compliance_report,
                  raised >>
  /\ UNCHANGED << segVars, detVars, procVars, embVars, hotVars, ingVars >>

Next ==
  \/ CheckRegulations_Start \/ CheckRegulations_Chunk \/ CheckRegulations_Summary
  \/ CheckPolicies_Start \/ CheckPolicies_Chunk \/ CheckPolicies_Summary
  \/ GenerateReport \/ GenerateCorrectionReport

Spec == Init /\ [][Next]_vars

(***************************************************************************)
(* generate_report and generate_correction_report on results with given    *)
(* numbers of strong matches, weak matches and violations.                 *)
(***************************************************************************)
StrongHit(file) == [distance |-> 2000, document |-> T_80, document_filename |-> << file >>]
WeakHit(file) == [distance |-> 4000, document |-> T_80, document_filename |-> << file >>]
ViolationHit(file) == [distance |-> 6000, document |-> T_80, document_filename |-> << file >>]

\* what check_against_regulations returns when s, w and v chunks of a
\* document of n chunks get a strong, a weak and a violation candidate
RegulationResults(n, s, w, v) ==
  LET doc == UploadedDoc(n)
      lists == [total_chunks_checked |-> n,
                matches |-> [k \in 1..s |->
                               regulation_match_info(doc[k], StrongHit("regulation.pdf"))],
                weak_matches |-> [k \in 1..w |->
                               regulation_match_info(doc[k], WeakHit("regulation.pdf"))],
                violations |-> [k \in 1..v |->
                               regulation_match_info(doc[k], ViolationHit("regulation.pdf"))],
                summary |-> << >>]
  IN [lists EXCEPT !.summary = results_summary(lists)]

\* the same for check_against_policies
PolicyResults(n, s, w, v) ==
  LET doc == UploadedDoc(n)
      lists == [total_chunks_checked |-> n,
                matches |-> [k \in 1..s |-> policy_match_info(doc[k], StrongHit("policy.pdf"))],
                weak_matches |-> [k \in 1..w |-> policy_match_info(doc[k], WeakHit("policy.pdf"))],
                violations |-> [k \in 1..v |->
                               policy_match_info(doc[k], ViolationHit("policy.pdf"))],
                missing_clauses |-> << >>,
                summary |-> << >>]
  IN [lists EXCEPT !.summary = results_summary(lists)]

ReportInit ==
  /\ uploaded_chunks = UploadedDoc(MaxCount)
  /\ \/ /\ regulations_collection = Unavailable
        /\ regulation_results = [error |-> "Regulations collection not available"]
     \/ /\ regulations_collection = Collection({StrongHit("regulation.pdf"),
                                               WeakHit("regulation.pdf"),
                                               ViolationHit("regulation.pdf")})
        /\ \E s \in 0..MaxCount, w \in 0..MaxCount, v \in 0..MaxCount :
             regulation_results = RegulationResults(MaxCount, s, w, v)
  /\ \/ /\ policies_collection = Unavailable
        /\ policy_results = [error |-> "Bank policies collection not available"]
     \/ /\ policies_collection = Collection({StrongHit("policy.pdf"), WeakHit("policy.pdf"),
                                            ViolationHit("policy.pdf")})
        /\ \E s \in 0..MaxCount, w \in 0..MaxCount, v \in 0..MaxCount :
             policy_results = PolicyResults(MaxCount, s, w, v)
  /\ chk_pc = "generate_report"
  /\ chunk_no = MaxCount + 1
  /\ reg_seen = << >>
  /\ pol_seen = << >>
  /\ compliance_report = Absent
  /\ raised = "none"
  /\ correction_report = Absent
  /\ SegIdle /\ DetIdle /\ ProcIdle /\ EmbIdle /\ HotIdle /\ IngIdle

ReportNext == GenerateReport \/ GenerateCorrectionReport

ReportSpec == ReportInit /\ [][ReportNext]_vars

(***************************************************************************)
(* _check_numerical_discrepancy and extract_correct_value on one pair of   *)
(* an uploaded and a reference text.                                       *)
(***************************************************************************)
PhraseVocabulary ==
  { << "L", "o", "a", "n", " ", "t", "e", "r", "m", " ", "i", "s", " ", "9", "0", " ", "k", "u", "n" >>,
    << "L", "o", "a", "n", " ", "t", "e", "r", "m", " ", "i", "s", " ", "9", "5", " ", "k", "u", "n" >>,
    << "9", "4", " ", "K", "a", "l", "e", "n", "d", "a", "r", " ", "K", "U", "N" >>,
    << "8", "0", "%" >>,
    << "8", "1", " ", "%" >>,
    << "8", "5", ".", "5", " ", "f", "o", "i", "z" >>,
    << "8", "0", ".", "5", "%" >>,
    << "1", "2", " ", "o", "y", " ", "3", " ", "y", "i", "l" >>,
    << "2", "4", " ", "m", "o", "n", "t", "h", " ", "1", "0", " ", "y", "e", "a", "r" >> }

\* the texts of n phrases, joined by single spaces
TextsOf(n) == {Join(ps, << " " >>) : ps \in [1..n -> PhraseVocabulary]}

\* a pair of two texts, and a text compared with itself
DetInit ==
  /\ \/ \E a \in 0..MaxPhrases : \E b \in 0..(MaxPhrases - a) :
          det_uploaded \in TextsOf(a) /\ det_reference \in TextsOf(b)
     \/ \E a \in 0..(MaxPhrases - 1) :
          det_uploaded \in TextsOf(a) /\ det_reference = det_uploaded
  /\ det_issue = None
  /\ det_correction = Absent
  /\ det_pc = "check"
  /\ SegIdle /\ ChkIdle /\ ProcIdle /\ EmbIdle /\ HotIdle /\ IngIdle

\* _check_numerical_discrepancy(chunk['text'], matched_text)
Detect ==
  /\ det_pc = "check"
  /\ det_issue' = check_numerical_discrepancy(det_uploaded, det_reference)
  /\ det_pc' = IF det_issue' = None THEN "done" ELSE "correct"
  /\ UNCHANGED << det_uploaded, det_reference, det_correction >>
  /\ UNCHANGED << segVars, chkVars, procVars, embVars, hotVars, ingVars >>

\* extract_correct_value on the violation record of that pair
Correct ==
  /\ det_pc = "correct"
  /\ det_correction' =
       extract_correct_value(
         regulation_match_info([id |-> << "uploaded_chunk_", 0 >>, text |-> det_uploaded],
                               [distance |-> 6000, document |-> det_reference,
                                document_filename |-> << "regulation.pdf" >>]))
  /\ det_pc' = "done"
  /\ UNCHANGED << det_uploaded, det_reference, det_issue >>
  /\ UNCHANGED << segVars, chkVars, procVars, embVars, hotVars, ingVars >>

DetNext == Detect \/ Correct

DetSpec == DetInit /\ [][DetNext]_vars

(***************************************************************************)
(* _parse_issue_description on issue strings of any segments.              *)
(***************************************************************************)
MaxSegments == 3

\* "<TYPE>: Uploaded says <v1>, reference says <v2>"
TemplateText(type, v1, v2) ==
  type \o << ":", " ", "U", "p", "l", "o", "a", "d", "e", "d", " ", "s", "a", "y", "s", " " >> \o v1 \o << ",", " ", "r", "e", "f", "e", "r", "e", "n", "c", "e", " ", "s", "a", "y", "s", " " >> \o v2

\* a segment that follows the template, with the lowercased type and the
\* difference of its two numbers in hundredths (numeric FALSE: no float)
TemplateSegment(type, field, v1, v2, numeric, diff) ==
  [text |-> TemplateText(type, v1, v2), template |-> TRUE, field |-> field,
   uploaded |-> v1, correct |-> v2, numeric |-> numeric, diff |-> diff]

\* a segment that does not follow the template
OtherSegment(t) ==
  [text |-> t, template |-> FALSE, field |-> << >>, uploaded |-> << >>, correct |-> << >>,
   numeric |-> FALSE, diff |-> 0]

\* segments with differences of 5, exactly 100, 100.5 and 108, one whose
\* first number is no float, and three that do not follow the template
SegmentVocabulary ==
  { TemplateSegment(<< "P", "E", "R", "C", "E", "N", "T" >>, << "p", "e", "r", "c", "e", "n", "t" >>, << "8", "5", ".", "0" >>, << "8", "0", ".", "0" >>, TRUE, 500),
    TemplateSegment(<< "D", "A", "Y", "S" >>, << "d", "a", "y", "s" >>, << "2", "0", "0", ".", "0" >>, << "1", "0", "0", ".", "0" >>, TRUE, 10000),
    TemplateSegment(<< "D", "A", "Y", "S" >>, << "d", "a", "y", "s" >>, << "2", "0", "0", ".", "5" >>, << "1", "0", "0", ".", "0" >>, TRUE, 10050),
    TemplateSegment(<< "M", "O", "N", "T", "H", "S" >>, << "m", "o", "n", "t", "h", "s" >>, << "1", "2", ".", "0" >>, << "1", "2", "0", ".", "0" >>, TRUE, 10800),
    TemplateSegment(<< "D", "A", "Y", "S" >>, << "d", "a", "y", "s" >>, << "1", ".", "2", ".", "3" >>, << "5", "0", "0", ".", "0" >>, FALSE, 0),
    OtherSegment(<< "s", "e", "e", " ", "s", "e", "c", "t", "i", "o", "n", " ", "7" >>),
    OtherSegment(<< "P", "E", "R", "C", "E", "N", "T", ":", " ", "U", "p", "l", "o", "a", "d", "e", "d", " ", "s", "a", "y", "s", " ", "8", "5", ".", "0" >>),
    OtherSegment(<< >>) }

\* the issue strings of up to MaxSegments segments, joined with " | "
IssueStrings ==
  {Join([k \in 1..Len(segs) |-> segs[k].text], S_Bar) : segs \in SeqsUpTo(SegmentVocabulary, MaxSegments)}

ParseInit ==
  /\ det_issue \in IssueStrings
  /\ det_uploaded = T_85
  /\ det_reference = T_80
  /\ det_correction = Absent
  /\ det_pc = "parse"
  /\ SegIdle /\ ChkIdle /\ ProcIdle /\ EmbIdle /\ HotIdle /\ IngIdle

\* extract_correct_value on a violation record with that potential_issue
ParseIssue ==
  /\ det_pc = "parse"
  /\ det_correction' =
       extract_correct_value([uploaded_chunk_id |-> << "uploaded_chunk_", 0 >>,
                              uploaded_text |-> det_uploaded,
                              matched_regulation |-> det_reference,
                              regulation_source |-> << "regulation.pdf" >>,
                              similarity_score |-> 4000,
                              distance |-> 6000,
                              potential_issue |-> det_issue])
  /\ det_pc' = "done"
  /\ UNCHANGED << det_uploaded, det_reference, det_issue >>
  /\ UNCHANGED << segVars, chkVars, procVars, embVars, hotVars, ingVars >>

ParseNext == ParseIssue

ParseSpec == ParseInit /\ [][ParseNext]_vars

(***************************************************************************)
(* generate_report and generate_correction_report on results whose         *)
(* violations have issues of every severity.                               *)
(***************************************************************************)
MaxViolations == 2

\* (uploaded text, reference text) of a violation: percent differences of 5,
\* 1 and 0.5, a percent and a days difference in one issue string, and a
\* months difference above 100
ViolationPairs ==
  { << T_85, T_80 >>,
    << << "8", "1", " ", "%" >>, T_80 >>,
    << << "8", "0", ".", "5", " ", "%" >>, T_80 >>,
    << << "8", "5", " ", "%", " ", "9", "0", " ", "k", "u", "n" >>, << "8", "0", " ", "%", " ", "9", "5", " ", "k", "u", "n" >> >>,
    << << "1", "2", " ", "o", "y" >>, << "1", "2", "0", " ", "o", "y" >> >> }

\* the uploaded chunks of a document given as a sequence of such pairs
PairsDoc(doc) ==
  [k \in 1..Len(doc) |-> [id |-> << "uploaded_chunk_", k - 1 >>, text |-> doc[k][1]]]

\* the candidate at distance 0.6 that holds the reference text of chunk k
PairHit(doc, k, file) ==
  [distance |-> 6000, document |-> doc[k][2], document_filename |-> << file >>]

\* the increasing sequence of the members of a set of chunk numbers
RECURSIVE Ascending(_)
Ascending(S) ==
  IF S = {} THEN << >>
  ELSE << CHOOSE m \in S : \A x \in S : m <= x >>
         \o Ascending(S \ {CHOOSE m \in S : \A x \in S : m <= x})

\* results['summary'] = {...}
WithSummary(lists) == [lists EXCEPT !.summary = results_summary(lists)]

\* what check_against_regulations returns when the chunks numbered in ks
\* get their candidate and the others get none
RegulationViolations(doc, ks) ==
  WithSummary([total_chunks_checked |-> Len(doc), matches |-> << >>, weak_matches |-> << >>,
   violations |-> [j \in 1..Len(ks) |->
                     regulation_match_info(PairsDoc(doc)[ks[j]],
                                           PairHit(doc, ks[j], "regulation.pdf"))],
   summary |-> << >>])

\* the same for check_against_policies
PolicyViolations(doc, ks) ==
  WithSummary([total_chunks_checked |-> Len(doc), matches |-> << >>, weak_matches |-> << >>,
   violations |-> [j \in 1..Len(ks) |->
                     policy_match_info(PairsDoc(doc)[ks[j]], PairHit(doc, ks[j], "policy.pdf"))],
   missing_clauses |-> << >>,
   summary |-> << >>])

CorrectionInit ==
  /\ \E doc \in SeqsUpTo(ViolationPairs, MaxViolations) :
       /\ uploaded_chunks = PairsDoc(doc)
       /\ regulations_collection =
            Collection({PairHit(doc, k, "regulation.pdf") : k \in 1..Len(doc)})
       /\ policies_collection = Collection({PairHit(doc, k, "policy.pdf") : k \in 1..Len(doc)})
       /\ \E R \in SUBSET (1..Len(doc)) : regulation_results = RegulationViolations(doc, Ascending(R))
       /\ \E P \in SUBSET (1..Len(doc)) : policy_results = PolicyViolations(doc, Ascending(P))
       /\ chunk_no = Len(doc) + 1
  /\ chk_pc = "generate_report"
  /\ reg_seen = << >>
  /\ pol_seen = << >>
  /\ compliance_report = Absent
  /\ raised = "none"
  /\ correction_report = Absent
  /\ SegIdle /\ DetIdle /\ ProcIdle /\ EmbIdle /\ HotIdle /\ IngIdle

CorrectionNext == GenerateReport \/ GenerateCorrectionReport

CorrectionSpec == CorrectionInit /\ [][CorrectionNext]_vars

(***************************************************************************)
(* Document processing: PDFProcessor.process_pdf for an uploaded document, *)
(* driven by the upload handler of app.py, and                             *)
(* ParagraphDocumentChunker.chunk_single_document for a policy document,   *)
(* driven by the loop of process_all_documents.                            *)
(***************************************************************************)

\* the number of documents handed to a pipeline
MaxDocs == 2
\* chunk_single_document: len(full_text.strip()) < 100
MinTextLength == 100
\* chunk_text(text, min_words=10), split_into_chunks(text, min_words=10)
default_min_words == 10

\* PDFProcessor.extract_text_from_pdf: the loop over the pages; a page that
\* cannot be read is skipped, a page without text adds nothing
RECURSIVE pdf_page_texts(_, _)
pdf_page_texts(pages, acc) ==
  IF pages = << >> THEN acc
  ELSE LET page == Head(pages)
       IN pdf_page_texts(Tail(pages),
            IF page.readable /\ Strip(page.text) # << >>
            THEN acc \o page.text \o << "\n" >> ELSE acc)

\* PDFProcessor.extract_text_from_pdf on a document that opens
pdf_extract_text(pages) == Strip(pdf_page_texts(pages, << >>))

AtLineStart(s, i) == i = 1 \/ s[i - 1] = "\n"
AtLineEnd(s, q) == q > Len(s) \/ s[q] = "\n"

\* index after the match of r'^\s*\d+\s*$' (re.MULTILINE) that starts at i,
\* 0 when there is none
PageNumberMatchEnd(s, i) ==
  LET m == SkipClass(s, i, SpaceChars)
      d == SkipClass(s, m, DigitChars)
      e == SkipClass(s, d, SpaceChars)
      ends == {q \in d..e : AtLineEnd(s, q)}
  IN IF AtLineStart(s, i) /\ d > m /\ ends # {}
     THEN CHOOSE q \in ends : \A r \in ends : r <= q
     ELSE 0

\* re.sub(r'^\s*\d+\s*$', '', page_text, flags=re.MULTILINE)
RECURSIVE remove_page_numbers(_, _)
remove_page_numbers(s, i) ==
  LET starts == {j \in i..Len(s) : PageNumberMatchEnd(s, j) # 0}
  IN IF starts = {} THEN Slice(s, i, Len(s))
     ELSE LET j == CHOOSE m \in starts : \A r \in starts : m <= r
          IN Slice(s, i, j - 1) \o remove_page_numbers(s, PageNumberMatchEnd(s, j))

\* ParagraphDocumentChunker.extract_text_from_pdf: the loop over the pages
RECURSIVE policy_page_texts(_, _)
policy_page_texts(pages, acc) ==
  IF pages = << >> THEN acc
  ELSE LET page_text == Head(pages).text
       IN policy_page_texts(Tail(pages),
            IF page_text # << >>
            THEN acc \o remove_page_numbers(page_text, 1) \o << "\n" >> ELSE acc)

\* a document some part of which cannot be extracted
Unextractable(file) ==
  ~file.opens \/ \E k \in 1..Len(file.pages) : ~file.pages[k].readable

\* collection.add(ids, ...): ids the collection already holds are left as
\* they are, the rest is appended
collection_add(collection, entries) ==
  collection \o SelectSeq(entries,
                  LAMBDA n : \A k \in 1..Len(collection) : collection[k].id # n.id)

\* the entries store_in_chromadb builds from the chunks
store_entries(cs, pdf_filename) ==
  [k \in 1..Len(cs) |->
     [id |-> cs[k].chunk_id,
      document |-> cs[k].chunk_text,
      embedding |-> cs[k].embedding,
      metadata |-> [source_pdf |-> pdf_filename,
                    chunk_index |-> cs[k].chunk_index,
                    word_count |-> cs[k].word_count,
                    chunk_position |-> cs[k].chunk_position]]]

\* chunks.sort(key=lambda x: x['metadata'].get('chunk_index', 0)): a stable sort
RECURSIVE sort_by_chunk_index(_)
sort_by_chunk_index(cs) ==
  IF cs = << >> THEN << >>
  ELSE LET low == CHOOSE k \in 1..Len(cs) :
                    /\ \A j \in 1..Len(cs) :
                         cs[k].metadata.chunk_index <= cs[j].metadata.chunk_index
                    /\ \A j \in 1..(k - 1) :
                         cs[j].metadata.chunk_index # cs[k].metadata.chunk_index
       IN << cs[low] >> \o
            sort_by_chunk_index([j \in 1..(Len(cs) - 1) |-> IF j < low THEN cs[j] ELSE cs[j + 1]])

\* ComplianceChecker.get_uploaded_chunks: every entry of the collection
get_uploaded_chunks(collection, doc_id) ==
  sort_by_chunk_index([k \in 1..Len(collection) |->
     [id |-> collection[k].id,
      text |-> collection[k].document,
      embedding |-> collection[k].embedding,
      metadata |-> collection[k].metadata]])

\* n copies of the word w, separated by one space
RECURSIVE Words(_, _)
Words(w, n) == IF n <= 1 THEN w ELSE w \o << " " >> \o Words(w, n - 1)

\* a sentence of n words that starts with the capital c and ends with a period
Sentence(c, n) == << c, " " >> \o Words(<< "a" >>, n - 2) \o << " ", "a", "." >>

Page(t) == [text |-> t, readable |-> TRUE]
UnreadablePage == [text |-> Sentence("Z", 10), readable |-> FALSE]

\* the documents: what opening the file and reading each page gives
FileVocabulary ==
  { [opens |-> TRUE, pages |-> << Page(Sentence("A", 10)) >>],            \* 21 characters
    [opens |-> TRUE, pages |-> << Page(Sentence("B", 50)) >>],            \* 100 characters
    [opens |-> TRUE, pages |-> << Page(Words(<< "a" >>, 50)) >>],         \* 99 characters
    [opens |-> TRUE,                                                      \* second page unreadable
     pages |-> << Page(Sentence("C", 10) \o << "\n" >> \o Sentence("D", 10)), UnreadablePage >>],
    [opens |-> FALSE, pages |-> << >>],                                   \* does not open
    [opens |-> TRUE,                                                      \* blank page, page number
     pages |-> << Page(<< " ", "\n" >>),
                  Page(<< " ", "7", " ", "\n" >> \o Sentence("E", 50)) >>],
    [opens |-> TRUE,                                                      \* two paragraphs
     pages |-> << Page(Sentence("F", 50) \o << "\n" >> \o Sentence("G", 10)) >>] }

\* the file names, by position of the document
FileName(k) == << "doc", k, ".pdf" >>

ProcInit ==
  /\ pipeline \in {"process_pdf", "chunk_single_document"}
  /\ \E n \in 1..MaxDocs : pdf_files \in [1..n -> FileVocabulary]
  /\ file_no = 1
  /\ proc_pc = "extract"
  /\ full_text = None
  /\ proc_chunks = << >>
  /\ uploaded_collection = << >>
  /\ retrieved = Absent
  /\ proc_log = << >>
  /\ proc_error = "none"
  /\ SegIdle /\ ChkIdle /\ DetIdle /\ EmbIdle /\ HotIdle /\ IngIdle

\* the record of a step a pipeline executed for the current document
Logged(step, t) == proc_log' = Append(proc_log, [file |-> file_no, step |-> step, text |-> t])

\* an exception that leaves the pipeline; the driver reports it
Raise(err) == proc_error' = err /\ proc_pc' = "failed"

\* a call of a segmenter on the extracted text, with the default min_words
CallSegmenter(variant) ==
  /\ seg_variant' = variant
  /\ text' = full_text
  /\ min_words' = default_min_words
  /\ lines' = << >> /\ line_no' = 0 /\ current_chunk' = << >> /\ chunks' = << >>
  /\ chunk_lines' = << >> /\ force_new_chunk' = FALSE /\ chunk_objects' = << >>
  /\ seg_pc' = "start"
  /\ UNCHANGED first_run

\* process_pdf, step 1: extract_text_from_pdf
Upload_Extract ==
  /\ pipeline = "process_pdf" /\ proc_pc = "extract"
  /\ LET file == pdf_files[file_no]
     IN IF ~file.opens
        THEN /\ Raise("Error extracting PDF text")
             /\ Logged("extract raised", None)
             /\ UNCHANGED full_text
        ELSE /\ full_text' = pdf_extract_text(file.pages)
             /\ Logged("extract returned", pdf_extract_text(file.pages))
             /\ proc_pc' = "chunk"
             /\ UNCHANGED proc_error
  /\ UNCHANGED << pipeline, pdf_files, file_no, proc_chunks, uploaded_collection, retrieved >>
  /\ UNCHANGED << segVars, chkVars, detVars, embVars, hotVars, ingVars >>

\* process_pdf, step 2: the call of chunk_text(full_text)
Upload_Chunk ==
  /\ pipeline = "process_pdf" /\ proc_pc = "chunk"
  /\ CallSegmenter("pdf")
  /\ Logged("chunk", full_text)
  /\ proc_pc' = "chunking"
  /\ UNCHANGED << pipeline, pdf_files, file_no, full_text, proc_chunks, uploaded_collection,
                  retrieved, proc_error >>
  /\ UNCHANGED << chkVars, detVars, embVars, hotVars, ingVars >>

\* process_pdf, step 2: chunk_text has returned the chunk objects
Upload_Chunked ==
  /\ pipeline = "process_pdf" /\ proc_pc = "chunking" /\ seg_pc = "done"
  /\ proc_chunks' = chunk_objects
  /\ proc_pc' = "embed"
  /\ UNCHANGED << pipeline, pdf_files, file_no, full_text, uploaded_collection, retrieved,
                  proc_log, proc_error >>
  /\ UNCHANGED << segVars, chkVars, detVars, embVars, hotVars, ingVars >>

\* process_pdf, step 3: the call of generate_embeddings(chunks)
Upload_Embed ==
  /\ pipeline = "process_pdf" /\ proc_pc = "embed"
  /\ emb_variant' = "pdf_processor" /\ emb_batches' = 1 /\ batch_no' = 1 /\ attempt' = 0
  /\ emb_chunks' = [k \in 1..Len(proc_chunks) |-> [chunk_id |-> proc_chunks[k].chunk_id]]
  /\ emb_pc' = "call" /\ api_calls' = << >> /\ all_embeddings' = << >>
  /\ failed_chunks' = << >>
  /\ Logged("embed", full_text)
  /\ proc_pc' = "embedding"
  /\ UNCHANGED << pipeline, pdf_files, file_no, full_text, proc_chunks, uploaded_collection,
                  retrieved, proc_error >>
  /\ UNCHANGED << segVars, chkVars, detVars, hotVars, ingVars >>

\* client.embeddings.create: a response with one embedding per text, an
\* exception, or a response that lacks some of the embeddings
ApiOutcomes == {"ok", "api error", "bad response"}

\* len(response.data) for a call with n texts: every embedding, none after an
\* exception, and one fewer than n in a response that lacks some (there is no
\* such response when n = 0)
ResponseSizes(outcome, n) ==
  IF outcome = "ok" THEN {n}
  ELSE IF outcome = "api error" THEN {0}
  ELSE {n - 1} \cap Nat

\* the record of one call of the embeddings API
ApiCall(outcome, data) ==
  [batch |-> batch_no, attempt |-> attempt, outcome |-> outcome, data |-> data]

\* response.data[j].embedding of the call-th call of the API (j from 0)
Vector(call, j) == << "vector", call, j >>

\* the records of the first m chunks of a batch, with the vectors of the
\* response at one position further
EmbeddingRecords_shifted(batch, m, call) ==
  [j \in 1..m |-> [chunk_id |-> batch[j].chunk_id, embedding |-> Vector(call, j % m)]]

\* for i, chunk in enumerate(batch_chunks): the record of a chunk holds its
\* fields and response.data[i].embedding; m records are built
EmbeddingRecords(batch, m, call) ==
  [j \in 1..m |-> [chunk_id |-> batch[j].chunk_id, embedding |-> Vector(call, j - 1)]]

\* PDFProcessor.generate_embeddings: one call of the embeddings API for all
\* the chunks; a failure is raised at once
Pdf_GenerateEmbeddings ==
  /\ emb_variant = "pdf_processor" /\ emb_pc = "call"
  /\ \E outcome \in ApiOutcomes : \E data \in ResponseSizes(outcome, Len(emb_chunks)) :
       /\ api_calls' = Append(api_calls, ApiCall(outcome, data))
       /\ all_embeddings' = IF outcome = "ok"
                             THEN EmbeddingRecords(emb_chunks, data, Len(api_calls) + 1)
                             ELSE all_embeddings
       /\ emb_pc' = IF outcome = "ok" THEN "returned" ELSE "raised"
  /\ UNCHANGED << emb_variant, emb_chunks, emb_batches, batch_no, attempt, failed_chunks >>
  /\ UNCHANGED << segVars, chkVars, detVars, procVars, hotVars, ingVars >>

\* process_pdf, step 3: generate_embeddings has returned or raised
Upload_Embedded ==
  /\ pipeline = "process_pdf" /\ proc_pc = "embedding" /\ emb_pc \in {"returned", "raised"}
  /\ IF emb_pc = "returned"
     THEN /\ proc_chunks' = [k \in 1..Len(proc_chunks) |->
                               [chunk_id |-> proc_chunks[k].chunk_id,
                                chunk_index |-> proc_chunks[k].chunk_index,
                                chunk_text |-> proc_chunks[k].chunk_text,
                                word_count |-> proc_chunks[k].word_count,
                                chunk_position |-> proc_chunks[k].chunk_position,
                                total_chunks |-> proc_chunks[k].total_chunks,
                                embedding |-> << "embedding", file_no, k - 1 >>]]
          /\ proc_pc' = "store"
          /\ UNCHANGED proc_error
     ELSE /\ Raise("Error generating embeddings")
          /\ UNCHANGED proc_chunks
  /\ UNCHANGED << pipeline, pdf_files, file_no, full_text, uploaded_collection, retrieved,
                  proc_log >>
  /\ UNCHANGED << segVars, chkVars, detVars, embVars, hotVars, ingVars >>

\* process_pdf, step 4: store_in_chromadb. An add without ids, or with ids the
\* collection already holds, is refused by some builds of the store
Upload_Store ==
  /\ pipeline = "process_pdf" /\ proc_pc = "store"
  /\ Logged("store", full_text)
  /\ LET entries == store_entries(proc_chunks, FileName(file_no))
         refusable == \/ entries = << >>
                      \/ \E j \in 1..Len(entries), k \in 1..Len(uploaded_collection) :
                           entries[j].id = uploaded_collection[k].id
     IN \/ /\ uploaded_collection' = collection_add(uploaded_collection, entries)
           /\ proc_pc' = "check"
           /\ UNCHANGED proc_error
        \/ /\ refusable
           /\ Raise("Error storing in ChromaDB")
           /\ UNCHANGED uploaded_collection
  /\ UNCHANGED << pipeline, pdf_files, file_no, full_text, proc_chunks, retrieved >>
  /\ UNCHANGED << segVars, chkVars, detVars, embVars, hotVars, ingVars >>

\* the upload handler: ComplianceChecker().get_uploaded_chunks()
Upload_GetChunks ==
  /\ pipeline = "process_pdf" /\ proc_pc = "check"
  /\ retrieved' = get_uploaded_chunks(uploaded_collection, None)
  /\ Logged("check", full_text)
  /\ proc_pc' = "checked"
  /\ UNCHANGED << pipeline, pdf_files, file_no, full_text, proc_chunks, uploaded_collection,
                  proc_error >>
  /\ UNCHANGED << segVars, chkVars, detVars, embVars, hotVars, ingVars >>

\* the next document of the driver
NextDocument ==
  /\ file_no < Len(pdf_files)
  /\ file_no' = file_no + 1
  /\ proc_pc' = "extract"
  /\ full_text' = None /\ proc_chunks' = << >> /\ retrieved' = Absent /\ proc_error' = "none"
  /\ UNCHANGED << pipeline, pdf_files, uploaded_collection, proc_log >>
  /\ UNCHANGED << segVars, chkVars, detVars, embVars, hotVars, ingVars >>

\* the upload handler: the next uploaded file, after a check or a reported error
Upload_Next ==
  /\ pipeline = "process_pdf" /\ proc_pc \in {"checked", "failed"}
  /\ NextDocument

\* chunk_single_document, step 1: extract_text_from_pdf
PolicyDoc_Extract ==
  /\ pipeline = "chunk_single_document" /\ proc_pc = "extract"
  /\ LET file == pdf_files[file_no]
     IN IF Unextractable(file)
        THEN /\ Raise("PDF extraction failed")
             /\ Logged("extract raised", None)
             /\ UNCHANGED full_text
        ELSE /\ full_text' = policy_page_texts(file.pages, << >>)
             /\ Logged("extract returned", policy_page_texts(file.pages, << >>))
             /\ proc_pc' = "length"
             /\ UNCHANGED proc_error
  /\ UNCHANGED << pipeline, pdf_files, file_no, proc_chunks, uploaded_collection, retrieved >>
  /\ UNCHANGED << segVars, chkVars, detVars, embVars, hotVars, ingVars >>

\* chunk_single_document: if not full_text or len(full_text.strip()) < 100
PolicyDoc_Length ==
  /\ pipeline = "chunk_single_document" /\ proc_pc = "length"
  /\ IF full_text = << >> \/ Len(Strip(full_text)) < MinTextLength
     THEN Raise("Empty PDF")
     ELSE proc_pc' = "chunk" /\ UNCHANGED proc_error
  /\ UNCHANGED << pipeline, pdf_files, file_no, full_text, proc_chunks, uploaded_collection,
                  retrieved, proc_log >>
  /\ UNCHANGED << segVars, chkVars, detVars, embVars, hotVars, ingVars >>

\* chunk_single_document, step 2: the call of split_into_chunks(full_text)
PolicyDoc_Split ==
  /\ pipeline = "chunk_single_document" /\ proc_pc = "chunk"
  /\ CallSegmenter("policy")
  /\ Logged("chunk", full_text)
  /\ proc_pc' = "chunking"
  /\ UNCHANGED << pipeline, pdf_files, file_no, full_text, proc_chunks, uploaded_collection,
                  retrieved, proc_error >>
  /\ UNCHANGED << chkVars, detVars, embVars, hotVars, ingVars >>

\* ParagraphDocumentChunker.create_chunk (the identifying fields)
create_chunk(paragraph_text, chunk_index, doc, total_chunks) ==
  [chunk_id |-> << "doc", doc, "__chunk_", chunk_index >>,
   document_filename |-> FileName(doc),
   chunk_index |-> chunk_index,
   total_chunks |-> total_chunks,
   chunk_position |-> << chunk_index + 1, total_chunks >>,
   paragraph_text |-> paragraph_text]

\* chunk_single_document, step 3: the chunk objects
PolicyDoc_Objects ==
  /\ pipeline = "chunk_single_document" /\ proc_pc = "chunking" /\ seg_pc = "done"
  /\ proc_chunks' = [k \in 1..Len(chunks) |-> create_chunk(chunks[k], k - 1, file_no, Len(chunks))]
  /\ proc_pc' = "returned"
  /\ UNCHANGED << pipeline, pdf_files, file_no, full_text, uploaded_collection, retrieved,
                  proc_log, proc_error >>
  /\ UNCHANGED << segVars, chkVars, detVars, embVars, hotVars, ingVars >>

\* process_all_documents: the next row, after the chunks or a printed error
PolicyDoc_Next ==
  /\ pipeline = "chunk_single_document" /\ proc_pc \in {"returned", "failed"}
  /\ NextDocument

ProcNext ==
  \/ Upload_Extract \/ Upload_Chunk \/ Pdf_Start \/ Pdf_Line \/ Pdf_Final \/ Upload_Chunked
  \/ Upload_Embed \/ Pdf_GenerateEmbeddings \/ Upload_Embedded \/ Upload_Store
  \/ Upload_GetChunks \/ Upload_Next
  \/ PolicyDoc_Extract \/ PolicyDoc_Length \/ PolicyDoc_Split
  \/ Policy_Start \/ Policy_Line \/ Policy_Final \/ PolicyDoc_Objects \/ PolicyDoc_Next

ProcessSpec == ProcInit /\ [][ProcNext]_vars

(***************************************************************************)
(* Embedding in batches: RegulationEmbeddingGenerator.generate_embeddings  *)
(* with _fetch_embeddings_with_retry, ChunkEmbeddingGenerator with         *)
(* _embed_batch, and the single call of PDFProcessor.generate_embeddings.  *)
(***************************************************************************)

\* the number of batches of chunks
MaxBatches == 2
\* self.batch_size = 100
embed_batch_size == 100
\* self.max_retries = 3
max_retries == 3

\* except Exception: if attempt < self.max_retries - 1: sleep, else: raise;
\* read one attempt too late
last_attempt_late(a) == ~(a < max_retries)

\* except Exception: if attempt < self.max_retries - 1: sleep, else: raise
last_attempt(a) == ~(a < max_retries - 1)

\* the try block of one attempt completes: in _fetch_embeddings_with_retry it
\* holds the API call alone, in _embed_batch also the building of the records
attempt_completes(variant, outcome) ==
  \/ outcome = "ok"
  \/ variant = "embed_regulations" /\ outcome = "bad response"

\* self.chunks: n chunks with their ids
InputChunks(n) == [k \in 1..n |-> [chunk_id |-> << "chunk_", k - 1 >>]]

\* the numbers of chunks: none, and those at the edges of the batches
ChunkCounts ==
  {n \in 0..(MaxBatches * embed_batch_size) :
     n % embed_batch_size \in {0, 1, embed_batch_size - 1}}

\* self.chunks[batch_idx:batch_idx + self.batch_size] of batch number b
BatchChunks(b) ==
  LET batch_idx == (b - 1) * embed_batch_size
      end == IF batch_idx + embed_batch_size < Len(emb_chunks)
             THEN batch_idx + embed_batch_size ELSE Len(emb_chunks)
  IN Slice(emb_chunks, batch_idx + 1, end)

EmbedInit ==
  /\ emb_variant \in {"embed_regulations", "embedding_script", "pdf_processor"}
  /\ emb_chunks \in {InputChunks(n) : n \in ChunkCounts}
  /\ emb_batches = IF emb_variant = "pdf_processor" THEN 1
                   ELSE (Len(emb_chunks) + embed_batch_size - 1) \div embed_batch_size
  /\ batch_no = IF emb_variant = "pdf_processor" THEN 1 ELSE 0
  /\ attempt = 0
  /\ emb_pc = IF emb_variant = "pdf_processor" THEN "call" ELSE "batch"
  /\ api_calls = << >>
  /\ all_embeddings = << >>
  /\ failed_chunks = << >>
  /\ SegIdle /\ ChkIdle /\ DetIdle /\ ProcIdle /\ HotIdle /\ IngIdle

\* generate_embeddings: the next batch of the loop over the chunks
Emb_Batch ==
  /\ emb_variant \in {"embed_regulations", "embedding_script"}
  /\ emb_pc = "batch" /\ batch_no < emb_batches
  /\ batch_no' = batch_no + 1
  /\ attempt' = 0
  /\ emb_pc' = "call"
  /\ UNCHANGED << emb_variant, emb_chunks, emb_batches, api_calls, all_embeddings,
                  failed_chunks >>
  /\ UNCHANGED << segVars, chkVars, detVars, procVars, hotVars, ingVars >>

\* _fetch_embeddings_with_retry, _embed_batch: one iteration of
\* "for attempt in range(self.max_retries)"; a loop that runs out returns None
Emb_Attempt ==
  /\ emb_variant \in {"embed_regulations", "embedding_script"}
  /\ emb_pc = "call"
  /\ IF attempt < max_retries
     THEN \E outcome \in ApiOutcomes :
          \E data \in ResponseSizes(outcome, Len(BatchChunks(batch_no))) :
            /\ api_calls' = Append(api_calls, ApiCall(outcome, data))
            /\ IF attempt_completes(emb_variant, outcome)
               THEN emb_pc' = "returned" /\ UNCHANGED attempt
               ELSE IF last_attempt(attempt)
                    THEN emb_pc' = "raised" /\ UNCHANGED attempt
                    ELSE emb_pc' = "call" /\ attempt' = attempt + 1
     ELSE emb_pc' = "returned" /\ UNCHANGED << api_calls, attempt >>
  /\ UNCHANGED << emb_variant, emb_chunks, emb_batches, batch_no, all_embeddings,
                  failed_chunks >>
  /\ UNCHANGED << segVars, chkVars, detVars, procVars, hotVars, ingVars >>

\* the last call returned a response with every embedding
GoodResponse == api_calls # << >> /\ api_calls[Len(api_calls)].outcome = "ok"

\* ChunkEmbeddingGenerator.generate_embeddings, the try/except around one
\* batch, with the failed batch not recorded
embedding_script_batch_dropfailed(batch, returned, found, failed) ==
  IF returned /\ GoodResponse
  THEN [all_embeddings |-> found \o EmbeddingRecords(batch, Len(batch), Len(api_calls)),
        failed_chunks |-> failed]
  ELSE [all_embeddings |-> found, failed_chunks |-> failed]

\* ChunkEmbeddingGenerator.generate_embeddings, the try/except around one
\* batch: all_embeddings.extend(self._embed_batch(batch_chunks)), and
\* failed_chunks.extend(batch_chunks) when _embed_batch raised
embedding_script_batch(batch, returned, found, failed) ==
  IF returned /\ GoodResponse
  THEN [all_embeddings |-> found \o EmbeddingRecords(batch, Len(batch), Len(api_calls)),
        failed_chunks |-> failed]
  ELSE [all_embeddings |-> found, failed_chunks |-> failed \o batch]

\* RegulationEmbeddingGenerator.generate_embeddings, the try/except around
\* one batch: the records are appended to all_embeddings one by one while
\* response.data has an item for them; the exception of a missing item or of
\* the call is printed and the loop continues
embed_regulations_batch(batch, returned, found, failed) ==
  IF returned /\ api_calls # << >>
  THEN [all_embeddings |->
          found \o EmbeddingRecords(batch, api_calls[Len(api_calls)].data, Len(api_calls)),
        failed_chunks |-> failed]
  ELSE [all_embeddings |-> found, failed_chunks |-> failed]

\* generate_embeddings: the try/except around one batch
Emb_BatchResult ==
  /\ emb_variant \in {"embed_regulations", "embedding_script"}
  /\ emb_pc \in {"returned", "raised"}
  /\ LET batch == BatchChunks(batch_no)
         out == IF emb_variant = "embedding_script"
                THEN embedding_script_batch(batch, emb_pc = "returned", all_embeddings,
                                            failed_chunks)
                ELSE embed_regulations_batch(batch, emb_pc = "returned", all_embeddings,
                                             failed_chunks)
     IN /\ all_embeddings' = out.all_embeddings
        /\ failed_chunks' = out.failed_chunks
  /\ emb_pc' = "batch"
  /\ UNCHANGED << emb_variant, emb_chunks, emb_batches, batch_no, attempt, api_calls >>
  /\ UNCHANGED << segVars, chkVars, detVars, procVars, hotVars, ingVars >>

\* generate_embeddings: after the last batch, the results are saved
Emb_Save ==
  /\ emb_variant \in {"embed_regulations", "embedding_script"}
  /\ emb_pc = "batch" /\ batch_no = emb_batches
  /\ emb_pc' = "saved"
  /\ UNCHANGED << emb_variant, emb_chunks, emb_batches, batch_no, attempt, api_calls,
                  all_embeddings, failed_chunks >>
  /\ UNCHANGED << segVars, chkVars, detVars, procVars, hotVars, ingVars >>

EmbedNext == Emb_Batch \/ Emb_Attempt \/ Emb_BatchResult \/ Emb_Save \/ Pdf_GenerateEmbeddings

EmbedSpec == EmbedInit /\ [][EmbedNext]_vars

\* the process keeps running: a step that can be taken is taken
EmbedFairSpec == EmbedSpec /\ WF_vars(EmbedNext)

(***************************************************************************)
(* The keyword flags of a policy chunk:                                    *)
(* ParagraphDocumentChunker.detect_compliance_hotspots and the             *)
(* compliance_flags field of create_chunk.  A character outside ASCII is   *)
(* written as its code point, "U+0437".                                    *)
(***************************************************************************)

\* the capital letters of Russian and Uzbek Cyrillic and their str.lower()
CyrillicUpper ==
  << "U+0401", "U+040E", "U+0410", "U+0411", "U+0412", "U+0413", "U+0414", "U+0415",
     "U+0416", "U+0417", "U+0418", "U+0419", "U+041A", "U+041B", "U+041C", "U+041D",
     "U+041E", "U+041F", "U+0420", "U+0421", "U+0422", "U+0423", "U+0424", "U+0425",
     "U+0426", "U+0427", "U+0428", "U+0429", "U+042A", "U+042B", "U+042C", "U+042D",
     "U+042E", "U+042F", "U+0492", "U+049A", "U+04B2" >>
CyrillicLower ==
  << "U+0451", "U+045E", "U+0430", "U+0431", "U+0432", "U+0433", "U+0434", "U+0435",
     "U+0436", "U+0437", "U+0438", "U+0439", "U+043A", "U+043B", "U+043C", "U+043D",
     "U+043E", "U+043F", "U+0440", "U+0441", "U+0442", "U+0443", "U+0444", "U+0445",
     "U+0446", "U+0447", "U+0448", "U+0449", "U+044A", "U+044B", "U+044C", "U+044D",
     "U+044E", "U+044F", "U+0493", "U+049B", "U+04B3" >>

\* str.lower() of one character
lower_char(c) ==
  IF c \in UpperChars THEN Lower(<< c >>)[1]
  ELSE IF \E k \in 1..Len(CyrillicUpper) : CyrillicUpper[k] = c
       THEN CyrillicLower[CHOOSE k \in 1..Len(CyrillicUpper) : CyrillicUpper[k] = c]
       ELSE c

\* str.lower()
text_lower(s) == [k \in 1..Len(s) |-> lower_char(s[k])]

\* needle in haystack
Contains(haystack, needle) ==
  \E i \in 1..(Len(haystack) + 1) : StartsWithAt(haystack, i, needle)

\* self.compliance_keywords, in the order of the dict
compliance_keywords ==
  << [category |-> "interest_rate",
      keywords |-> << << "U+043F", "U+0440", "U+043E", "U+0446", "U+0435", "U+043D", "U+0442", "U+043D", "U+0430", "U+044F", " ", "U+0441", "U+0442", "U+0430", "U+0432", "U+043A", "U+0430" >>,
                     << "f", "o", "i", "z", " ", "s", "t", "a", "v", "k", "a", "s", "i" >>,
                     << "U+0444", "U+043E", "U+0438", "U+0437", " ", "U+0441", "U+0442", "U+0430", "U+0432", "U+043A", "U+0430", "U+0441", "U+0438" >> >>],
     [category |-> "collateral",
      keywords |-> << << "U+0437", "U+0430", "U+043B", "U+043E", "U+0433" >>,
                     << "g", "a", "r", "o", "v" >>,
                     << "U+0433", "U+0430", "U+0440", "U+043E", "U+0432" >> >>],
     [category |-> "mandatory_disclosure",
      keywords |-> << << "U+043A", "U+043B", "U+0438", "U+0435", "U+043D", "U+0442", " ", "U+0438", "U+043C", "U+0435", "U+0435", "U+0442", " ", "U+043F", "U+0440", "U+0430", "U+0432", "U+043E" >>,
                     << "m", "i", "j", "o", "z", " ", "h", "u", "q", "u", "q", "i" >>,
                     << "U+043C", "U+0438", "U+0436", "U+043E", "U+0437", " ", "U+04B3", "U+0443", "U+049B", "U+0443", "U+049B", "U+0438" >> >>],
     [category |-> "pre_selected",
      keywords |-> << << "U+043F", "U+043E", " ", "U+0443", "U+043C", "U+043E", "U+043B", "U+0447", "U+0430", "U+043D", "U+0438", "U+044E" >>,
                     << "a", "v", "t", "o", "m", "a", "t", "i", "k", " ", "t", "a", "n", "l", "a", "n", "g", "a", "n" >>,
                     << "U+0430", "U+0432", "U+0442", "U+043E", "U+043C", "U+0430", "U+0442", "U+0438", "U+043A", " ", "U+0442", "U+0430", "U+043D", "U+043B", "U+0430", "U+043D", "U+0433", "U+0430", "U+043D" >>,
                     << "U+2611" >>,
                     << "U+2713" >> >>],
     [category |-> "language_requirement",
      keywords |-> << << "U+0433", "U+043E", "U+0441", "U+0443", "U+0434", "U+0430", "U+0440", "U+0441", "U+0442", "U+0432", "U+0435", "U+043D", "U+043D", "U+044B", "U+0439", " ", "U+044F", "U+0437", "U+044B", "U+043A" >>,
                     << "d", "a", "v", "l", "a", "t", " ", "t", "i", "l", "i" >>,
                     << "U+0434", "U+0430", "U+0432", "U+043B", "U+0430", "U+0442", " ", "U+0442", "U+0438", "U+043B", "U+0438" >> >>] >>


\* detect_compliance_hotspots without text.lower()
detect_compliance_hotspots_cased(t) ==
  [c \in {compliance_keywords[k].category : k \in 1..Len(compliance_keywords)} |->
     \E k \in 1..Len(compliance_keywords) :
       /\ compliance_keywords[k].category = c
       /\ \E j \in 1..Len(compliance_keywords[k].keywords) :
            Contains(t, text_lower(compliance_keywords[k].keywords[j]))]

\* ParagraphDocumentChunker.detect_compliance_hotspots
detect_compliance_hotspots(t) ==
  [c \in {compliance_keywords[k].category : k \in 1..Len(compliance_keywords)} |->
     \E k \in 1..Len(compliance_keywords) :
       /\ compliance_keywords[k].category = c
       /\ \E j \in 1..Len(compliance_keywords[k].keywords) :
            Contains(text_lower(t), text_lower(compliance_keywords[k].keywords[j]))]

\* create_chunk: [k for k, v in hotspots.items() if v]
flagged_categories(h) ==
  LET flagged == SelectSeq(compliance_keywords, LAMBDA e : h[e.category])
  IN [k \in 1..Len(flagged) |-> flagged[k].category]

\* the phrases the chunk texts are built from
HotPhrases ==
  { << "G", "a", "r", "o", "v" >>,  \* Garov
    << "F", "O", "I", "Z" >>,  \* FOIZ
    << "s", "t", "a", "v", "k", "a", "s", "i" >>,  \* stavkasi
    << "f", "o", "i", "z", " ", "s", "t", "a", "v", "k", "a", "s", "i" >>,  \* foiz stavkasi
    << "U+0417", "U+0410", "U+041B", "U+041E", "U+0413" >>,  \* zalog, in Cyrillic capitals
    << "U+2611" >>,  \* ballot box with check
    << "D", "a", "v", "l", "a", "t", " ", "t", "i", "l", "i" >>,  \* Davlat tili
    << "U+041C", "U+0438", "U+0436", "U+043E", "U+0437", " ", "U+04B2", "U+0443", "U+049B", "U+0443", "U+049B", "U+0438" >>,  \* mijoz huquqi, in Cyrillic with capital initials
    << "g", "a", "r", "o" >>,  \* garo
    << "U+043F", "U+043E", " ", "U+0443", "U+043C", "U+043E", "U+043B", "U+0447", "U+0430", "U+043D", "U+0438", "U+044E" >>  \* po umolchaniyu, in Cyrillic
  }

HotInit ==
  /\ hot_text \in {Join(ps, << " " >>) : ps \in SeqsUpTo(HotPhrases, MaxPhrases)}
  /\ hotspots = Absent
  /\ compliance_flags = << >>
  /\ hot_pc = "start"
  /\ SegIdle /\ ChkIdle /\ DetIdle /\ ProcIdle /\ EmbIdle /\ IngIdle

\* create_chunk: hotspots = self.detect_compliance_hotspots(paragraph_text)
DetectHotspots ==
  /\ hot_pc = "start"
  /\ hotspots' = detect_compliance_hotspots(hot_text)
  /\ hot_pc' = "detected"
  /\ UNCHANGED << hot_text, compliance_flags >>
  /\ UNCHANGED << segVars, chkVars, detVars, procVars, embVars, ingVars >>

\* create_chunk: the compliance_flags field of the chunk
SetComplianceFlags ==
  /\ hot_pc = "detected"
  /\ compliance_flags' = flagged_categories(hotspots)
  /\ hot_pc' = "done"
  /\ UNCHANGED << hot_text, hotspots >>
  /\ UNCHANGED << segVars, chkVars, detVars, procVars, embVars, ingVars >>

HotNext == DetectHotspots \/ SetComplianceFlags

HotspotSpec == HotInit /\ [][HotNext]_vars

(***************************************************************************)
(* chroma_ingestion.py: reingest_with_documents on one collection of the   *)
(* client.  store is the collection of that name (Absent when the client   *)
(* has none), a sequence of items; vectors and metadata rows are known by   *)
(* their numbers and the metadata by its column names.                     *)
(***************************************************************************)
\* the number of upload batches
MaxUploads == 2
\* batch_size = 1000
batch_size == 1000

\* the items of a collection left by an earlier run
OldItems ==
  << [id |-> << "id_", 0 >>, embedding |-> << "old vector", 0 >>,
      document |-> << "old text", 0 >>],
     [id |-> << "id_", 5000 >>, embedding |-> << "old vector", 1 >>,
      document |-> << "old text", 1 >>] >>

\* the numbers of vectors: none, and those at the edges of the batches
VectorCounts ==
  {n \in 0..(MaxUploads * batch_size) : n % batch_size \in {0, 1, batch_size - 1}}

\* the columns of the metadata file
ColumnSets ==
  { {"chunk_id", "chunk_text_latin", "chunk_text_cyrillic"},
    {"chunk_id", "chunk_text_cyrillic"},
    {"chunk_id"} }

\* text_field='chunk_text_latin'
text_field == "chunk_text_latin"

\* "if len(vectors) != len(metadata_df)" read as "more vectors than rows"
lengths_mismatch_lenient(vectors, rows) == vectors > rows

\* if len(vectors) != len(metadata_df)
lengths_mismatch(vectors, rows) == vectors # rows

\* the column the documents are taken from, None when there is none
document_field(columns) ==
  IF text_field \in columns THEN text_field
  ELSE IF "chunk_text_cyrillic" \in columns THEN "chunk_text_cyrillic"
  ELSE "None"

\* ids[i:end], embeddings=vectors[i:end], documents=documents[i:end]
upload_items(i, end, field) ==
  [k \in 1..(end - i) |->
     [id |-> << "id_", i + k - 1 >>,
      embedding |-> << "vector", i + k - 1 >>,
      document |-> << field, i + k - 1 >>]]

IngInit ==
  /\ store \in {Absent, [items |-> OldItems]}
  /\ collection_name \in {"bank_policies", "regulations"}
  /\ ing_vectors \in VectorCounts
  /\ ing_rows \in {ing_vectors - 1, ing_vectors, ing_vectors + 1} \cap Nat
  /\ ing_columns \in ColumnSets
  /\ ing_pc = "delete"
  /\ ing_i = 0
  /\ ing_batches = << >>
  /\ ing_error = "none"
  /\ SegIdle /\ ChkIdle /\ DetIdle /\ ProcIdle /\ EmbIdle /\ HotIdle

\* try: client.delete_collection(name=collection_name); except: print
Reingest_Delete ==
  /\ ing_pc = "delete"
  /\ store' = Absent
  /\ ing_pc' = "create"
  /\ UNCHANGED << collection_name, ing_vectors, ing_rows, ing_columns, ing_i, ing_batches,
                  ing_error >>
  /\ UNCHANGED << segVars, chkVars, detVars, procVars, embVars, hotVars >>

\* collection = client.create_collection(name=collection_name): refused when
\* the client has a collection of that name
Reingest_Create ==
  /\ ing_pc = "create"
  /\ IF store = Absent
     THEN store' = [items |-> << >>] /\ ing_pc' = "load" /\ UNCHANGED ing_error
     ELSE ing_error' = "collection exists" /\ ing_pc' = "raised" /\ UNCHANGED store
  /\ UNCHANGED << collection_name, ing_vectors, ing_rows, ing_columns, ing_i, ing_batches >>
  /\ UNCHANGED << segVars, chkVars, detVars, procVars, embVars, hotVars >>

\* the vectors and the metadata are loaded and their lengths compared
Reingest_CheckLengths ==
  /\ ing_pc = "load"
  /\ IF lengths_mismatch(ing_vectors, ing_rows)
     THEN ing_error' = "ValueError: Mismatch" /\ ing_pc' = "raised"
     ELSE ing_pc' = "fields" /\ UNCHANGED ing_error
  /\ UNCHANGED << store, collection_name, ing_vectors, ing_rows, ing_columns, ing_i,
                  ing_batches >>
  /\ UNCHANGED << segVars, chkVars, detVars, procVars, embVars, hotVars >>

\* the choice of the text column; ids, metadatas and the batch count
Reingest_Fields ==
  /\ ing_pc = "fields"
  /\ IF document_field(ing_columns) = "None"
     THEN ing_error' = "ValueError: No text field found" /\ ing_pc' = "raised"
     ELSE ing_pc' = "upload" /\ UNCHANGED ing_error
  /\ ing_i' = 0
  /\ UNCHANGED << store, collection_name, ing_vectors, ing_rows, ing_columns, ing_batches >>
  /\ UNCHANGED << segVars, chkVars, detVars, procVars, embVars, hotVars >>

\* one iteration of "for batch_num, i in enumerate(range(0, len(ids),
\* batch_size), 1)": collection.add of the items i..end-1
Reingest_Batch ==
  /\ ing_pc = "upload" /\ ing_i < ing_vectors
  /\ LET end == IF ing_i + batch_size < ing_vectors THEN ing_i + batch_size ELSE ing_vectors
     IN /\ store' = [items |-> collection_add(store.items,
                                  upload_items(ing_i, end, document_field(ing_columns)))]
        /\ ing_batches' = Append(ing_batches, [from |-> ing_i, to |-> end])
  /\ ing_i' = ing_i + batch_size
  /\ UNCHANGED << collection_name, ing_vectors, ing_rows, ing_columns, ing_pc, ing_error >>
  /\ UNCHANGED << segVars, chkVars, detVars, procVars, embVars, hotVars >>

\* after the loop: the count and the sample are printed, the collection is
\* returned
Reingest_Return ==
  /\ ing_pc = "upload" /\ ~(ing_i < ing_vectors)
  /\ ing_pc' = "returned"
  /\ UNCHANGED << store, collection_name, ing_vectors, ing_rows, ing_columns, ing_i,
                  ing_batches, ing_error >>
  /\ UNCHANGED << segVars, chkVars, detVars, procVars, embVars, hotVars >>

IngestNext ==
  \/ Reingest_Delete \/ Reingest_Create \/ Reingest_CheckLengths \/ Reingest_Fields
  \/ Reingest_Batch \/ Reingest_Return

IngestSpec == IngInit /\ [][IngestNext]_vars
(***************************************************************************)
(* Claims.                                                                 *)
(***************************************************************************)

\* a numeric label: digit runs, each closed by a dot ("1.", "1.2.3.")
IsNumericLabel(p) ==
  /\ p # << >>
  /\ p[1] \in DigitChars
  /\ p[Len(p)] = "."
  /\ \A i \in 1..Len(p) : p[i] \in DigitChars \cup {"."}
  /\ \A i \in 1..(Len(p) - 1) : ~(p[i] = "." /\ p[i + 1] = ".")

\* a section-header line: a numeric label, whitespace, an uppercase letter
IsSectionHeaderLine(l) ==
  LET s == Strip(l)
  IN \E n \in 1..Len(s) : \E m \in 1..Len(s) :
       /\ n + 1 < m
       /\ IsNumericLabel(SubSeq(s, 1, n))
       /\ \A i \in (n + 1)..(m - 1) : s[i] \in SpaceChars
       /\ s[m] \in UpperChars

\* the chunks a segmenter has emitted so far (for the pdf variant also the
\* chunk objects it returns)
EmittedTexts ==
  {chunks[k] : k \in 1..Len(chunks)}
    \cup {chunk_objects[k].chunk_text : k \in 1..Len(chunk_objects)}

\* C1: every chunk emitted by any of the three segmenters has at least
\* min_words whitespace-separated words, and no emitted chunk is empty.
C1_ChunkMinWords ==
  /\ \A c \in EmittedTexts : c # << >> /\ Len(SplitWords(c)) >= min_words
  /\ \A k \in 1..Len(chunk_objects) : chunk_objects[k].word_count >= min_words

\* C1 witness: a finished run that emitted a chunk and dropped a short run of
\* lines (a non-blank, non-header line that is in no chunk)
C1_Witness ==
  /\ seg_pc = "done"
  /\ min_words >= 2
  /\ Len(chunks) >= 1
  /\ \E k \in 1..Len(lines) :
       /\ Strip(lines[k]) # << >>
       /\ ~IsSectionHeaderLine(lines[k])
       /\ \A c \in 1..Len(chunk_lines) : \A j \in 1..Len(chunk_lines[c]) :
            chunk_lines[c][j] # Strip(lines[k])

BucketOf(h) ==
  IF h.distance < 3000 THEN "matches"
  ELSE IF h.distance < 5000 THEN "weak_matches"
  ELSE IF h.issue # None THEN "violations"
  ELSE "none"

\* the non-skipped candidates of the history that belong to a list, in order
KeptIn(seen, bucket) ==
  LET kept == SelectSeq(seen, LAMBDA h : h.document # None /\ BucketOf(h) = bucket)
  IN [k \in 1..Len(kept) |-> [chunk_id |-> kept[k].chunk_id, document |-> kept[k].document,
                              issue |-> kept[k].issue]]

RegulationListed(list) ==
  [k \in 1..Len(list) |-> [chunk_id |-> list[k].uploaded_chunk_id,
                           document |-> list[k].matched_regulation,
                           issue |-> list[k].potential_issue]]

PolicyListed(list) ==
  [k \in 1..Len(list) |-> [chunk_id |-> list[k].uploaded_chunk_id,
                           document |-> list[k].matched_policy,
                           issue |-> list[k].potential_issue]]

SummaryFilled(results) == "summary" \in DOMAIN results /\ DOMAIN results.summary # {}

\* the score is 100 * (s + 0.5 * w) / (s + w + v) to within half a hundredth
ScoreWithinRounding(score, s, w, v) ==
  IF s + w + v = 0 THEN score = 0
  ELSE /\ 2 * (s + w + v) * score - 10000 * (2 * s + w) <= s + w + v
       /\ 10000 * (2 * s + w) - 2 * (s + w + v) * score <= s + w + v

\* C3: in check_against_regulations and check_against_policies every
\* retrieved candidate that is not skipped is listed by its distance and its
\* detector result alone: below 0.3 in matches, from 0.3 and below 0.5 in
\* weak_matches, from 0.5 on in violations exactly when potential_issue is
\* not null; a candidate from 0.5 on without an issue is in no list and not
\* in the denominator of the score.
C3_BucketByDistanceAndIssue ==
  /\ "matches" \in DOMAIN regulation_results =>
       /\ RegulationListed(regulation_results.matches) = KeptIn(reg_seen, "matches")
       /\ RegulationListed(regulation_results.weak_matches) = KeptIn(reg_seen, "weak_matches")
       /\ RegulationListed(regulation_results.violations) = KeptIn(reg_seen, "violations")
       /\ SummaryFilled(regulation_results) =>
            ScoreWithinRounding(regulation_results.summary.compliance_score,
                                Len(KeptIn(reg_seen, "matches")),
                                Len(KeptIn(reg_seen, "weak_matches")),
                                Len(KeptIn(reg_seen, "violations")))
  /\ "matches" \in DOMAIN policy_results =>
       /\ PolicyListed(policy_results.matches) = KeptIn(pol_seen, "matches")
       /\ PolicyListed(policy_results.weak_matches) = KeptIn(pol_seen, "weak_matches")
       /\ PolicyListed(policy_results.violations) = KeptIn(pol_seen, "violations")
       /\ SummaryFilled(policy_results) =>
            ScoreWithinRounding(policy_results.summary.compliance_score,
                                Len(KeptIn(pol_seen, "matches")),
                                Len(KeptIn(pol_seen, "weak_matches")),
                                Len(KeptIn(pol_seen, "violations")))

\* a finished regulation check that retrieved a candidate at exactly 0.3, one
\* at exactly 0.5 with an issue and one at 0.5 without
C3_Witness ==
  /\ SummaryFilled(regulation_results)
  /\ \E k \in 1..Len(reg_seen) : reg_seen[k].distance = 3000 /\ reg_seen[k].document # None
  /\ \E k \in 1..Len(reg_seen) : reg_seen[k].distance = 5000 /\ reg_seen[k].issue # None
  /\ \E k \in 1..Len(reg_seen) :
       reg_seen[k].distance = 5000 /\ reg_seen[k].document # None /\ reg_seen[k].issue = None
  /\ Len(regulation_results.weak_matches) = 1
  /\ Len(regulation_results.violations) = 1

\* ---- C4 ----
ScoreRight(results) ==
  SummaryFilled(results) =>
    ScoreWithinRounding(results.summary.compliance_score, Len(results.matches),
                        Len(results.weak_matches), Len(results.violations))

\* the regulation check retrieved exactly two candidates, at 0.2 and at 0.4
TwoCandidates ==
  /\ Len(reg_seen) = 2
  /\ reg_seen[1].distance = 2000 /\ reg_seen[1].document # None
  /\ reg_seen[2].distance = 4000 /\ reg_seen[2].document # None

\* C4: the compliance score of a finished check is
\* 100 * (strong + 0.5 * weak) / (strong + weak + kept violations) rounded to
\* two decimals, and 0.0 when that total is 0; candidates at distances 0.2
\* and 0.4 give one strong match, one weak match and the score 75.0.
C4_ScoreFormula ==
  /\ ScoreRight(regulation_results)
  /\ ScoreRight(policy_results)
  /\ SummaryFilled(regulation_results) /\ TwoCandidates =>
       /\ Len(regulation_results.matches) = 1
       /\ Len(regulation_results.weak_matches) = 1
       /\ Len(regulation_results.violations) = 0
       /\ regulation_results.summary.compliance_score = 7500

C4_Witness ==
  /\ SummaryFilled(regulation_results) /\ TwoCandidates
  /\ regulation_results.summary.compliance_score = 7500
  /\ SummaryFilled(policy_results)
  /\ Len(policy_results.violations) = 1 /\ Len(policy_results.matches) = 1
  /\ Len(policy_results.weak_matches) = 1
  /\ policy_results.summary.compliance_score = 5000

\* ---- C5 ----
\* C5: generate_report sets overall_status from the mean of the regulation
\* score and the policy score: PASS when the mean is at least 80, WARNING
\* when it is at least 60 and below 80, FAIL when it is below 60.
C5_StatusFromMean ==
  compliance_report # Absent =>
    LET twice_mean == regulation_results.summary.compliance_score
                        + policy_results.summary.compliance_score
    IN /\ (compliance_report.overall_status = "PASS") <=> (twice_mean >= 16000)
       /\ (compliance_report.overall_status = "WARNING") <=>
            (twice_mean >= 12000 /\ twice_mean < 16000)
       /\ (compliance_report.overall_status = "FAIL") <=> (twice_mean < 12000)

\* a report on scores 100.0 and 60.0, whose mean is exactly 80
C5_Witness ==
  /\ compliance_report # Absent
  /\ regulation_results.summary.compliance_score = 10000
  /\ policy_results.summary.compliance_score = 6000
  /\ compliance_report.overall_status = "PASS"

\* ---- C6 ----
T_Loan90 == << "L", "o", "a", "n", " ", "t", "e", "r", "m", " ", "i", "s", " ", "9", "0", " ", "k", "u", "n" >>
T_Loan95 == << "L", "o", "a", "n", " ", "t", "e", "r", "m", " ", "i", "s", " ", "9", "5", " ", "k", "u", "n" >>
T_Days90_95 == << "D", "A", "Y", "S", ":", " ", "U", "p", "l", "o", "a", "d", "e", "d", " ", "s", "a", "y", "s", " ", "9", "0", ".", "0", ",", " ", "r", "e", "f", "e", "r", "e", "n", "c", "e", " ", "s", "a", "y", "s", " ", "9", "5", ".", "0" >>

CategoryLabels == << << "D", "A", "Y", "S" >>, << "P", "E", "R", "C", "E", "N", "T" >>, << "M", "O", "N", "T", "H", "S" >>, << "Y", "E", "A", "R", "S" >> >>

\* the values of a category extracted from a text
ExtractedValues(t, c) ==
  LET found == FindAll(Lower(t), 1, Concepts[c])
  IN [k \in 1..Len(found) |-> ParseFloat(found[k])]

\* the values of every category extracted from a text
ValuesByCategory(t) ==
  << ExtractedValues(t, 1), ExtractedValues(t, 2), ExtractedValues(t, 3), ExtractedValues(t, 4) >>

\* the pairs (category, position in uploaded, position in reference) of
\* differing values, from the uploaded values u and the reference values r
PairsOf(c, u, r) == {p \in {c} \X (1..Len(u)) \X (1..Len(r)) : u[p[2]] # r[p[3]]}

DifferingPairsOf(us, rs) == UNION {PairsOf(c, us[c], rs[c]) : c \in 1..4}

DifferingPairs == DifferingPairsOf(ValuesByCategory(det_uploaded), ValuesByCategory(det_reference))

\* the entry of an uploaded value v1 and a reference value v2 of category c
EntryText(c, v1, v2) ==
  CategoryLabels[c] \o << ":", " ", "U", "p", "l", "o", "a", "d", "e", "d", " ", "s", "a", "y", "s", " " >> \o FloatStr(v1) \o << ",", " ", "r", "e", "f", "e", "r", "e", "n", "c", "e", " ", "s", "a", "y", "s", " " >> \o FloatStr(v2)

\* the entries of the differing pairs
EntriesOf(c, u, r) == {EntryText(c, u[p[2]], r[p[3]]) : p \in PairsOf(c, u, r)}

ExpectedEntriesOf(us, rs) == UNION {EntriesOf(c, us[c], rs[c]) : c \in 1..4}

\* the detector's output: null exactly when no pair differs, else one entry
\* per differing pair
OutputMatches(us, rs, entries) ==
  \A pairs \in {DifferingPairsOf(us, rs)} :
    /\ (det_issue = None) <=> (pairs = {})
    /\ Len(entries) = Cardinality(pairs)
    /\ {entries[k] : k \in 1..Len(entries)} = ExpectedEntriesOf(us, rs)
    /\ det_issue # None => det_issue = Join(entries, << " ", "|", " " >>)

ReportedEntries ==
  IF det_issue = None THEN << >>
  ELSE LET parts == SplitOn(det_issue, "|") IN [k \in 1..Len(parts) |-> Strip(parts[k])]

\* C6: _check_numerical_discrepancy reports one entry
\* "<CATEGORY>: Uploaded says <v1>, reference says <v2>" for every pair of an
\* uploaded and a reference value of one category that differ, joins the
\* entries with " | ", and returns null when no pair differs; "Loan term is
\* 90 kun" against "Loan term is 95 kun" gives exactly
\* "DAYS: Uploaded says 90.0, reference says 95.0".
C6_DetectorOutput ==
  det_pc # "check" =>
    /\ \A us \in {ValuesByCategory(det_uploaded)} :
         \A rs \in {ValuesByCategory(det_reference)} :
           \A entries \in {ReportedEntries} : OutputMatches(us, rs, entries)
    /\ det_uploaded = T_Loan90 /\ det_reference = T_Loan95 => det_issue = T_Days90_95

C6_Witness ==
  /\ det_pc # "check"
  /\ det_uploaded = T_Loan90 /\ det_reference = T_Loan95
  /\ det_issue = T_Days90_95

\* ---- C7 ----
AllCorrectionEntries ==
  correction_report.critical_corrections \o correction_report.high_priority_corrections
    \o correction_report.medium_priority_corrections

\* C7: the report of one generate_correction_report call holds at most one
\* correction entry per (field, current_value, correct_value), over all the
\* regulation and policy violations it processed, and counts it once.
C7_OneEntryPerKey ==
  correction_report # Absent =>
    /\ \A i, j \in 1..Len(AllCorrectionEntries) :
         (/\ AllCorrectionEntries[i].field = AllCorrectionEntries[j].field
          /\ AllCorrectionEntries[i].current_value = AllCorrectionEntries[j].current_value
          /\ AllCorrectionEntries[i].correct_value = AllCorrectionEntries[j].correct_value)
           => i = j
    /\ correction_report.total_corrections_needed =
         Cardinality({<< AllCorrectionEntries[i].field, AllCorrectionEntries[i].current_value,
                         AllCorrectionEntries[i].correct_value >> :
                        i \in 1..Len(AllCorrectionEntries)})

\* ---- C8 ----
\* the severity table, on the absolute difference in hundredths
SeverityTable(field, d) ==
  IF field = << "p", "e", "r", "c", "e", "n", "t" >>
  THEN (IF d >= 500 THEN "CRITICAL" ELSE IF d >= 100 THEN "HIGH" ELSE "MEDIUM")
  ELSE IF field = << "d", "a", "y", "s" >>
  THEN (IF d >= 500 THEN "HIGH" ELSE "MEDIUM")
  ELSE "MEDIUM"

Distance(a, b) == IF a >= b THEN a - b ELSE b - a

\* C8: the severity of every correction item follows the table: percent is
\* CRITICAL from a difference of 5, HIGH from 1 and below 5, MEDIUM below 1;
\* days is HIGH from 5 and MEDIUM below; months and years are MEDIUM.
C8_SeverityTable ==
  det_correction # Absent =>
    \A k \in 1..Len(det_correction.corrections) :
      LET c == det_correction.corrections[k]
      IN c.severity = SeverityTable(c.field, Distance(ParseFloat(c.current_value),
                                                      ParseFloat(c.correct_value)))

\* a correction with a percent item whose difference is exactly 1 and one
\* whose difference is below 1
C8_Witness ==
  /\ det_correction # Absent
  /\ \E k \in 1..Len(det_correction.corrections) :
       LET c == det_correction.corrections[k]
       IN /\ c.field = << "p", "e", "r", "c", "e", "n", "t" >> /\ c.severity = "HIGH"
          /\ c.current_value = << "8", "1", ".", "0" >> /\ c.correct_value = << "8", "0", ".", "0" >>
  /\ \E k \in 1..Len(det_correction.corrections) :
       LET c == det_correction.corrections[k]
       IN /\ c.field = << "p", "e", "r", "c", "e", "n", "t" >> /\ c.severity = "MEDIUM"
          /\ c.current_value = << "8", "1", ".", "0" >> /\ c.correct_value = << "8", "0", ".", "5" >>

\* ---- C9 ----
\* the correction of the issue "DAYS: Uploaded says 90.0, reference says
\* 95.0" is exactly one item, days from "90.0" to "95.0", of that severity
DaysExampleItem(severity) ==
  (det_correction # Absent /\ det_issue = T_Days90_95) =>
    /\ Len(det_correction.corrections) = 1
    /\ det_correction.corrections[1].field = << "d", "a", "y", "s" >>
    /\ det_correction.corrections[1].current_value = << "9", "0", ".", "0" >>
    /\ det_correction.corrections[1].correct_value = << "9", "5", ".", "0" >>
    /\ det_correction.corrections[1].severity = severity

\* C9 as stated: the issue string "DAYS: Uploaded says 90.0, reference says
\* 95.0" gives exactly one correction item, field "days", current_value
\* "90.0", correct_value "95.0", severity "MEDIUM".
C9_DaysExampleMedium == DaysExampleItem("MEDIUM")

\* C9 as amended: the same single item, with severity "HIGH" (the difference
\* is 5, and days from 5 on are HIGH).
C9_DaysExampleHigh == DaysExampleItem("HIGH")

C9_Witness ==
  /\ det_correction # Absent /\ det_issue = T_Days90_95
  /\ Len(det_correction.corrections) = 1
  /\ det_correction.corrections[1].severity = "HIGH"

\* ---- C10 ----
\* C10: with the regulations collection or the bank-policies collection
\* unavailable, the two checks followed by generate_report do not raise, and
\* a report is produced that names the check that could not run.
C10_NoRaiseWhenUnavailable ==
  (~regulations_collection.available \/ ~policies_collection.available) =>
    /\ raised = "none"
    /\ chk_pc \in {"generate_correction_report", "done"} =>
         /\ compliance_report # Absent
         /\ ~regulations_collection.available =>
              "error" \in DOMAIN compliance_report.regulation_compliance
         /\ ~policies_collection.available =>
              "error" \in DOMAIN compliance_report.policy_compliance

\* ---- C11 ----
\* the candidates of the history with a reference text that is neither null
\* nor empty and that belong to a list, in order
KeptNonEmptyIn(seen, bucket) ==
  KeptIn(SelectSeq(seen, LAMBDA h : h.document # << >>), bucket)

\* C11: in check_against_regulations and check_against_policies a retrieved
\* candidate whose reference text is null or empty is skipped: the three
\* lists hold exactly the records of the other candidates, whatever the
\* distance of the skipped one, and the other candidates of the chunk are
\* still processed.
C11_NullOrEmptySkipped ==
  /\ "matches" \in DOMAIN regulation_results =>
       /\ RegulationListed(regulation_results.matches) = KeptNonEmptyIn(reg_seen, "matches")
       /\ RegulationListed(regulation_results.weak_matches)
            = KeptNonEmptyIn(reg_seen, "weak_matches")
       /\ RegulationListed(regulation_results.violations)
            = KeptNonEmptyIn(reg_seen, "violations")
  /\ "matches" \in DOMAIN policy_results =>
       /\ PolicyListed(policy_results.matches) = KeptNonEmptyIn(pol_seen, "matches")
       /\ PolicyListed(policy_results.weak_matches) = KeptNonEmptyIn(pol_seen, "weak_matches")
       /\ PolicyListed(policy_results.violations) = KeptNonEmptyIn(pol_seen, "violations")

\* ---- C12 ----
\* the stripped segments of the issue string
IssueSegments ==
  LET parts == SplitOn(det_issue, "|") IN [k \in 1..Len(parts) |-> Strip(parts[k])]

\* what the vocabulary says about a segment
VocabularyEntry(t) == CHOOSE e \in SegmentVocabulary : e.text = t

\* the correction items with the type and the two number strings of a segment
ItemsOf(e) ==
  {k \in 1..Len(det_correction.corrections) :
     /\ det_correction.corrections[k].field = e.field
     /\ det_correction.corrections[k].current_value = e.uploaded
     /\ det_correction.corrections[k].correct_value = e.correct}

\* a segment that follows the template and is not discarded by the guard
Eligible(e) == e.template /\ (e.numeric => e.diff <= 100 * 100)

\* C12: in _parse_issue_description a segment that follows the template and
\* whose two numbers differ by more than 100 in absolute value produces no
\* correction item; one whose numbers differ by at most 100, exactly 100
\* included, produces one, once per (field, current_value, correct_value).
C12_DifferenceGuard ==
  det_pc = "done" =>
    \A k \in 1..Len(IssueSegments) :
      \A e \in {VocabularyEntry(IssueSegments[k])} :
        e.template /\ e.numeric =>
          Cardinality(ItemsOf(e)) = IF e.diff > 100 * 100 THEN 0 ELSE 1

\* an issue string with a difference of exactly 100 and one of 100.5, parsed
\* into the one item of the first
C12_Witness ==
  /\ det_pc = "done"
  /\ \E k \in 1..Len(IssueSegments) : VocabularyEntry(IssueSegments[k]).diff = 10000
  /\ \E k \in 1..Len(IssueSegments) : VocabularyEntry(IssueSegments[k]).diff = 10050
  /\ Len(det_correction.corrections) = 1
  /\ det_correction.corrections[1].current_value = << "2", "0", "0", ".", "0" >>
  /\ det_correction.corrections[1].correct_value = << "1", "0", "0", ".", "0" >>

\* ---- C13 ----
\* C13: in _parse_issue_description a segment that does not follow the
\* template "<TYPE>: Uploaded says <num>, reference says <num>" is skipped
\* without raising: the call returns, every correction item comes from a
\* segment that follows the template, and every segment that follows it and
\* passes the difference guard has its item, wherever the other segments are.
C13_NonMatchingSkipped ==
  det_pc = "done" =>
    /\ det_correction # Absent
    /\ \A k \in 1..Len(IssueSegments) :
         \A e \in {VocabularyEntry(IssueSegments[k])} :
           /\ Eligible(e) => ItemsOf(e) # {}
           /\ ~e.template => ItemsOf(e) = {}
    /\ \A i \in 1..Len(det_correction.corrections) :
         \E k \in 1..Len(IssueSegments) :
           /\ Eligible(VocabularyEntry(IssueSegments[k]))
           /\ i \in ItemsOf(VocabularyEntry(IssueSegments[k]))

\* a segment that does not follow the template, before one that does and
\* whose item is in the result
C13_Witness ==
  /\ det_pc = "done"
  /\ Len(IssueSegments) >= 2
  /\ ~VocabularyEntry(IssueSegments[1]).template
  /\ IssueSegments[1] # << >>
  /\ Eligible(VocabularyEntry(IssueSegments[2]))
  /\ Len(det_correction.corrections) = 1

\* ---- C14 ----
\* the number at the head of "<value> <unit>", in hundredths
EntryNumber(s) == ParseFloat(Slice(s, 1, SkipClass(s, 1, DigitChars \cup {"."}) - 1))

\* the severity of a correction entry by the table
EntrySeverity(e) ==
  SeverityTable(e.field, Distance(EntryNumber(e.current_value), EntryNumber(e.correct_value)))

\* every entry of a list has that severity
AllOfSeverity(list, severity) == \A k \in 1..Len(list) : EntrySeverity(list[k]) = severity

\* the number of correction items of a sequence of violations
RECURSIVE ItemCount(_)
ItemCount(violations) ==
  IF violations = << >> THEN 0
  ELSE Len(extract_correct_value(Head(violations)).corrections) + ItemCount(Tail(violations))

\* C14: after generate_correction_report, critical_count, high_count and
\* medium_count equal the lengths of the three correction lists, every
\* correction item of every violation is in exactly one list, the one of its
\* severity, and total_corrections_needed is the sum of the three counts.
C14_CountsMatchLists ==
  correction_report # Absent =>
    /\ correction_report.summary.critical_count = Len(correction_report.critical_corrections)
    /\ correction_report.summary.high_count = Len(correction_report.high_priority_corrections)
    /\ correction_report.summary.medium_count
         = Len(correction_report.medium_priority_corrections)
    /\ AllOfSeverity(correction_report.critical_corrections, "CRITICAL")
    /\ AllOfSeverity(correction_report.high_priority_corrections, "HIGH")
    /\ AllOfSeverity(correction_report.medium_priority_corrections, "MEDIUM")
    /\ Len(AllCorrectionEntries)
         = ItemCount(compliance_report.regulation_compliance.violations)
             + ItemCount(compliance_report.policy_compliance.violations)
    /\ correction_report.total_corrections_needed
         = correction_report.summary.critical_count + correction_report.summary.high_count
             + correction_report.summary.medium_count

\* a report with entries in all three lists, from regulation and policy
\* violations
C14_Witness ==
  /\ correction_report # Absent
  /\ correction_report.summary.critical_count >= 1
  /\ correction_report.summary.high_count >= 1
  /\ correction_report.summary.medium_count >= 1
  /\ Len(compliance_report.regulation_compliance.violations) >= 1
  /\ Len(compliance_report.policy_compliance.violations) >= 1
  /\ correction_report.total_corrections_needed >= 4

\* ---- C15 ----
\* a step of the loop of RegulationChunker.split_into_chunks over one line
RegulationLineStep ==
  /\ seg_variant = "regulation" /\ seg_pc = "loop"
  /\ line_no <= Len(lines) /\ line_no' = line_no + 1

\* a line that is neither blank nor a section header
BodyLine(l) == Strip(l) # << >> /\ ~IsSectionHeaderLine(l)

\* two or more leading whitespace characters
Indented(l) == SkipClass(l, 1, SpaceChars) >= 3

\* a chunk is open and its last line ends with neither '.' nor ';'
OpenUnended ==
  current_chunk # << >> /\ current_chunk[Len(current_chunk)][Len(current_chunk[Len(current_chunk)])] \notin {".", ";"}

\* the line is appended to the open chunk and nothing is emitted
AppendedWithoutFlush ==
  /\ current_chunk' = Append(current_chunk, Strip(lines[line_no]))
  /\ chunks' = chunks

\* the open chunk is closed, emitted when it has min_words words, and the
\* line opens the next chunk
FlushedBeforeAppend ==
  /\ current_chunk' = << Strip(lines[line_no]) >>
  /\ chunks' = IF Len(SplitWords(Join(current_chunk, << " " >>))) >= min_words
               THEN Append(chunks, Join(current_chunk, << " " >>))
               ELSE chunks

\* C15 as stated: in RegulationChunker.split_into_chunks a non-header line
\* with two or more leading whitespace characters whose previous appended
\* line did not end with '.' or ';' is appended to the open chunk and causes
\* no flush.
C15_IndentationDoesNotSplit ==
  [][(RegulationLineStep /\ BodyLine(lines[line_no]) /\ Indented(lines[line_no])
        /\ OpenUnended) => AppendedWithoutFlush]_vars

\* C15 amended: RegulationChunker.split_into_chunks also splits on
\* indentation: a non-header line with two or more leading whitespace
\* characters closes the open chunk before it is appended, whatever the end
\* of the previous line; a non-header line without that indentation whose
\* previous appended line did not end with '.' or ';' is appended to the open
\* chunk without a flush.
C15_IndentationSplits ==
  [][RegulationLineStep /\ BodyLine(lines[line_no]) =>
       /\ (Indented(lines[line_no]) /\ current_chunk # << >>) => FlushedBeforeAppend
       /\ (~Indented(lines[line_no]) /\ OpenUnended) => AppendedWithoutFlush]_vars

\* the regulation segmenter has just taken an indented line after a line
\* that ended with neither '.' nor ';': the earlier line was emitted as a
\* chunk and the indented line is alone in the open chunk
C15_Witness ==
  /\ seg_variant = "regulation" /\ seg_pc = "loop" /\ line_no >= 3
  /\ BodyLine(lines[line_no - 1]) /\ Indented(lines[line_no - 1])
  /\ BodyLine(lines[line_no - 2]) /\ ~Indented(lines[line_no - 2])
  /\ lines[line_no - 2][Len(lines[line_no - 2])] \notin {".", ";"}
  /\ current_chunk = << Strip(lines[line_no - 1]) >>
  /\ chunks # << >> /\ chunks[Len(chunks)] = lines[line_no - 2]

\* ---- C16 ----
\* the second run is finished, and the input of the first had no
\* section-header line
ResegmentedWithoutHeaders ==
  /\ first_run # Absent /\ seg_pc = "done"
  /\ \A k \in 1..Len(first_run.lines) : ~IsSectionHeaderLine(first_run.lines[k])

\* C16: for an input without section headers, segmenting the
\* space-joined concatenation of the emitted chunks gives as many chunks as
\* segmenting the input.
C16_SameChunkCount ==
  ResegmentedWithoutHeaders => Len(chunks) = Len(first_run.chunks)

\* ---- C17, C18, C19 ----
\* the pipeline has executed the step for document k
Executed(k, step) == \E j \in 1..Len(proc_log) : proc_log[j].file = k /\ proc_log[j].step = step

\* C17: get_uploaded_chunks returns only the chunks of the designated uploaded
\* document, the latest one when doc_id is None: once two different documents
\* have been processed and stored one after the other, the chunks returned for
\* the check of the second document contain no chunk of the first document.
C17_OnlyLatestDocument ==
  /\ pipeline = "process_pdf" /\ proc_pc = "checked" /\ file_no = 2
  /\ pdf_files[1] # pdf_files[2]
  /\ Executed(1, "check")
  => \A k \in 1..Len(retrieved) : retrieved[k].metadata.source_pdf # FileName(1)

\* C18: when the extraction of any part of a source file fails, extraction is
\* fatal for that document: extract_text_from_pdf raises to its caller and
\* never returns a partial text without the pages that could not be extracted.
C18_ExtractionFailureIsFatal ==
  \A j \in 1..Len(proc_log) :
    Unextractable(pdf_files[proc_log[j].file]) => proc_log[j].step # "extract returned"

\* C19: when the extracted text of a document is below the minimum length,
\* processing of that document fails before segmentation runs, in the policy
\* pipeline (chunk_single_document) and in the upload pipeline (process_pdf):
\* no chunking, embedding or storing step is executed for that document.
C19_ShortTextFailsBeforeSegmentation ==
  \A j \in 1..Len(proc_log) :
    /\ proc_log[j].step = "extract returned"
    /\ Len(Strip(proc_log[j].text)) < MinTextLength
    => /\ \A step \in {"chunk", "embed", "store"} : ~Executed(proc_log[j].file, step)
       /\ (file_no = proc_log[j].file => proc_pc \in {"chunk", "length", "failed"})

\* ---- C20 ----
\* the API calls made for batch b, in order
CallsFor(b) == SelectSeq(api_calls, LAMBDA e : e.batch = b)
\* the call let its attempt finish: the API returned and, where the attempt
\* of embedding_script.py also builds the records, they could be built
Succeeded(e) ==
  \/ e.outcome = "ok"
  \/ emb_variant = "embed_regulations" /\ e.outcome = "bad response"
AllFailed(calls) == \A k \in 1..Len(calls) : ~Succeeded(calls[k])

BoundedRetry ==
  \A b \in 1..batch_no :
    LET calls == CallsFor(b)
    IN /\ Len(calls) <= (IF emb_variant = "pdf_processor" THEN 1 ELSE 3)
       /\ \A k \in 1..Len(calls) : Succeeded(calls[k]) => k = Len(calls)
       /\ \A k \in 1..Len(calls) : calls[k].attempt = k - 1
       /\ b = batch_no =>
            /\ emb_pc = "call" => AllFailed(calls) /\ Len(calls) < 3
            /\ emb_pc = "returned" => calls # << >> /\ Succeeded(calls[Len(calls)])
            /\ emb_pc = "raised" =>
                 /\ AllFailed(calls)
                 /\ Len(calls) = (IF emb_variant = "pdf_processor" THEN 1 ELSE 3)

\* C20: the embedding call for one batch is attempted at most max_retries = 3
\* times; it returns at the first attempt that succeeds, without a further
\* attempt; after the third consecutive failure the exception reaches the batch
\* loop; the retry loop always terminates; and the embedding call of
\* pdf_processor.py is made once, without a retry.
C20_BoundedRetry ==
  /\ []BoundedRetry
  /\ (emb_pc = "call") ~> (emb_pc \in {"returned", "raised"})

\* the first batch was embedded at its second attempt and the second batch
\* has just raised after three failed attempts
C20_Witness ==
  /\ emb_variant \in {"embed_regulations", "embedding_script"}
  /\ batch_no = 2 /\ emb_pc = "raised"
  /\ Len(CallsFor(1)) = 2 /\ Len(all_embeddings) = embed_batch_size
  /\ Len(CallsFor(2)) = 3 /\ AllFailed(CallsFor(2))

\* ---- C21 ----
\* the chunk records of the current document exist
ChunkRecordsCreated ==
  \/ pipeline = "process_pdf" /\ proc_pc \in {"embed", "embedding", "store", "check", "checked"}
  \/ pipeline = "chunk_single_document" /\ proc_pc = "returned"

\* the text a chunk record carries
RecordText(c) == IF pipeline = "process_pdf" THEN c.chunk_text ELSE c.paragraph_text

\* C21: for every document, the chunk records created from the n emitted
\* chunks have pairwise distinct ids, chunk_index values exactly 0..n-1 in
\* emission order, and total_chunks equal to n.
C21_ChunkRecordsNumbered ==
  ChunkRecordsCreated =>
    /\ Len(proc_chunks) = Len(chunks)
    /\ \A k \in 1..Len(proc_chunks) :
         /\ proc_chunks[k].chunk_index = k - 1
         /\ proc_chunks[k].total_chunks = Len(chunks)
         /\ RecordText(proc_chunks[k]) = chunks[k]
    /\ \A j, k \in 1..Len(proc_chunks) :
         j # k => proc_chunks[j].chunk_id # proc_chunks[k].chunk_id

\* the records of a document of two chunks have been created, in either pipeline
C21_Witness ==
  /\ ChunkRecordsCreated /\ Len(chunks) = 2 /\ Len(proc_chunks) = 2
  /\ proc_chunks[2].chunk_index = 1

\* ---- C22 ----
Categories == {"interest_rate", "collateral", "mandatory_disclosure", "pre_selected",
               "language_requirement"}
\* the keyword phrases of a category
PhrasesOf(c) ==
  UNION {{compliance_keywords[k].keywords[j] : j \in 1..Len(compliance_keywords[k].keywords)} :
           k \in {i \in 1..Len(compliance_keywords) : compliance_keywords[i].category = c}}
\* phrase p occurs in t as a substring
Occurs(p, t) == \E i \in 1..(Len(t) - Len(p) + 1) : SubSeq(t, i, i + Len(p) - 1) = p
T_Garov == << "G", "a", "r", "o", "v" >>
T_FoizStavkasi == << "F", "O", "I", "Z", " ", "s", "t", "a", "v", "k", "a", "s", "i" >>
T_garo == << "g", "a", "r", "o" >>

\* C22: detect_compliance_hotspots flags a category true if and only if at
\* least one of its keyword phrases occurs as a substring of the lower-cased
\* chunk text; the categories are independent, and compliance_flags of the
\* chunk is exactly the set of the categories flagged true.
C22_HotspotFlags ==
  /\ hot_pc # "start" =>
       /\ DOMAIN hotspots = Categories
       /\ \A c \in Categories :
            hotspots[c] <=> \E p \in PhrasesOf(c) : Occurs(p, text_lower(hot_text))
       /\ hot_text = T_Garov => hotspots["collateral"]
       /\ hot_text = T_FoizStavkasi => hotspots["interest_rate"]
       /\ hot_text = T_garo => \A c \in Categories : ~hotspots[c]
  /\ hot_pc = "done" =>
       /\ {compliance_flags[k] : k \in 1..Len(compliance_flags)}
            = {c \in Categories : hotspots[c]}
       /\ \A j, k \in 1..Len(compliance_flags) :
            j # k => compliance_flags[j] # compliance_flags[k]

\* a chunk with capitals in its text carries two flags, one from a Latin and
\* one from a Cyrillic keyword
C22_Witness ==
  /\ hot_pc = "done"
  /\ compliance_flags = << "collateral", "mandatory_disclosure" >>
  /\ Occurs(T_Garov, hot_text)
  /\ ~Occurs(<< "g", "a", "r", "o", "v" >>, hot_text)

\* ---- C23 ----
\* the line appended last to the open chunk ends with '.' or ';'
OpenEnded ==
  /\ current_chunk # << >>
  /\ LET last == current_chunk[Len(current_chunk)] IN last[Len(last)] \in {".", ";"}

\* C23: in RegulationChunker.split_into_chunks, when the line appended last
\* ends with '.' or ';', the next non-blank non-header line starts a new chunk:
\* the open chunk is flushed before the line is appended, however many blank
\* lines lie between the two; a line whose previously appended line does not
\* end with '.' or ';' is split off only by the header or the indentation rule.
C23_ForcedSplit ==
  [][RegulationLineStep =>
       /\ (BodyLine(lines[line_no]) /\ OpenEnded) => FlushedBeforeAppend
       /\ (BodyLine(lines[line_no]) /\ OpenUnended) =>
            IF Indented(lines[line_no]) THEN FlushedBeforeAppend ELSE AppendedWithoutFlush
       /\ Strip(lines[line_no]) = << >> => UNCHANGED << current_chunk, chunks >>]_vars

\* a line that ends with '.', a blank line, and an unindented line: the
\* first line was emitted as a chunk and the third opens the next one
C23_Witness ==
  /\ seg_variant = "regulation" /\ seg_pc = "loop" /\ line_no = 4
  /\ BodyLine(lines[1]) /\ lines[1][Len(lines[1])] = "."
  /\ lines[2] = << >>
  /\ BodyLine(lines[3]) /\ ~Indented(lines[3])
  /\ chunks = << lines[1] >>
  /\ current_chunk = << lines[3] >>

\* ---- C24 ----
\* a step of the loop of ParagraphDocumentChunker.split_into_chunks over one line
PolicyLineStep ==
  /\ seg_variant = "policy" /\ seg_pc = "loop"
  /\ line_no <= Len(lines) /\ line_no' = line_no + 1

\* the uppercase letters of the two scripts: Latin A-Z and the Cyrillic
\* capitals, those of the Uzbek alphabet included
UppercaseLetters == UpperChars \cup {CyrillicUpper[i] : i \in DOMAIN CyrillicUpper}

\* the first character of the trimmed line is an uppercase letter
BeginsUppercase(l) == Strip(l) # << >> /\ Strip(l)[1] \in UppercaseLetters

\* C24: in ParagraphDocumentChunker.split_into_chunks a non-header line that
\* begins with an uppercase Latin or Cyrillic letter while a chunk is open
\* closes the open chunk and starts the next one, and a non-header line that
\* begins with no uppercase letter and has fewer than two leading whitespace
\* characters is appended to the open chunk, whatever the end of the line
\* before it.
C24_UppercaseStartsChunk ==
  [][(PolicyLineStep /\ BodyLine(lines[line_no])) =>
       /\ (BeginsUppercase(lines[line_no]) /\ current_chunk # << >>) => FlushedBeforeAppend
       /\ (~BeginsUppercase(lines[line_no]) /\ ~Indented(lines[line_no]))
            => AppendedWithoutFlush]_vars

\* what the loop does: the same two rules with "uppercase letter" read as a
\* character of the pattern's class, U+0410..U+042F, U+0401 and A-Z
C24_ClassCapitalStartsChunk ==
  [][(PolicyLineStep /\ BodyLine(lines[line_no])) =>
       /\ (StartsWithCapital(Strip(lines[line_no])) /\ current_chunk # << >>)
            => FlushedBeforeAppend
       /\ (~StartsWithCapital(Strip(lines[line_no])) /\ ~Indented(lines[line_no]))
            => AppendedWithoutFlush]_vars

\* a line beginning with the Uzbek capital U+04B2 has been appended to the
\* open chunk
C24_UzbekCapitalAppended ==
  /\ seg_variant = "policy" /\ seg_pc = "loop" /\ line_no = 3
  /\ Len(lines) >= 2 /\ lines[2] # << >> /\ lines[2][1] = "U+04B2"
  /\ current_chunk = << lines[1], lines[2] >>

\* ---- C25 ----
\* a step of the loop of PDFProcessor.chunk_text over one line
PdfLineStep ==
  /\ seg_variant = "pdf" /\ seg_pc = "loop"
  /\ line_no <= Len(lines) /\ line_no' = line_no + 1

\* the non-blank lines of the input text of chunk_text, as they were given:
\* the k-th of them is the line the k-th iteration of the loop is about
InputLines == SelectSeq(SplitOn(text, "\n"), LAMBDA l : Strip(l) # << >>)

\* after the step the open chunk holds this line only
StartsNewChunk == Len(current_chunk') = 1

\* C25: in PDFProcessor.chunk_text a line of the input text with two or more
\* leading spaces starts a new chunk when a chunk is open, also when it begins
\* with neither a capital letter nor a section number and the line before it
\* does not end with '.' or ';'.
C25_IndentedInputLineSplits ==
  [][(PdfLineStep /\ current_chunk # << >> /\ Indented(InputLines[line_no]))
       => StartsNewChunk]_vars

\* what the loop does: the indentation of the input is gone when the loop
\* runs, and a line starts a new chunk exactly when it begins with a section
\* number or a capital of the class, or the line before it ends with '.' or ';'
C25_SplitsWithoutIndentation ==
  [][(PdfLineStep /\ current_chunk # << >>) =>
       /\ Len(InputLines) = Len(lines)
       /\ ~StartsWithSpaces(lines[line_no])
       /\ StartsNewChunk <=>
            \/ SectionNumberMatch(lines[line_no])
            \/ PdfStartsWithCapital(lines[line_no])
            \/ ~OpenUnended]_vars

\* an input line with two leading spaces has been appended to the open chunk
C25_IndentedLineAppended ==
  /\ seg_variant = "pdf" /\ seg_pc = "loop" /\ line_no = 3
  /\ Len(InputLines) >= 2 /\ Indented(InputLines[2])
  /\ Len(current_chunk) = 2

\* ---- C26 ----
\* the lines of the input text
SourceLines == SplitOn(text, "\n")

\* the trimmed non-blank lines among lines a..b of the input
TrimmedRun(a, b) ==
  SelectSeq([k \in 1..(b - a + 1) |-> Strip(SourceLines[a + k - 1])], LAMBDA l : l # << >>)

\* lines a..b form a run: they begin and end with a body line and hold no
\* section header
IsRun(a, b) ==
  /\ a <= b /\ BodyLine(SourceLines[a]) /\ BodyLine(SourceLines[b])
  /\ \A k \in a..b : ~IsSectionHeaderLine(SourceLines[k])

\* the lines k..(a-1), none of which is in a chunk, may all be missing: each is
\* blank, a section header, or in a run of fewer than min_words words
RECURSIVE MayBeMissing(_, _)
MayBeMissing(k, a) ==
  \/ k >= a
  \/ /\ ~BodyLine(SourceLines[k])
     /\ MayBeMissing(k + 1, a)
  \/ \E b \in k..(a - 1) :
       /\ IsRun(k, b)
       /\ WordCount(Join(TrimmedRun(k, b), << " " >>)) < min_words
       /\ MayBeMissing(b + 1, a)

\* the chunks c, c+1, ... are, in this order, the single-space joins of
\* disjoint runs of the lines k, k+1, ..., and every line between the runs
\* may be missing
RECURSIVE ChunksAreRuns(_, _)
ChunksAreRuns(k, c) ==
  IF c > Len(chunks) THEN MayBeMissing(k, Len(SourceLines) + 1)
  ELSE \E a \in k..Len(SourceLines) : \E b \in a..Len(SourceLines) :
         /\ IsRun(a, b)
         /\ chunks[c] = Join(TrimmedRun(a, b), << " " >>)
         /\ MayBeMissing(k, a)
         /\ ChunksAreRuns(b + 1, c + 1)

\* C26: the chunks RegulationChunker.split_into_chunks and
\* ParagraphDocumentChunker.split_into_chunks return are in source order, each
\* the single-space join of a contiguous run of trimmed non-blank non-header
\* input lines, no line is in two chunks, and a line is in no chunk only if it
\* is blank, a section header, or in a run of fewer than min_words words.
C26_ChunksAreOrderedRuns ==
  (seg_variant \in {"regulation", "policy"} /\ seg_pc = "done") => ChunksAreRuns(1, 1)

\* a two-line run was emitted and the one-line run after it was dropped
C26_Witness ==
  /\ seg_variant \in {"regulation", "policy"} /\ seg_pc = "done"
  /\ Len(SourceLines) = 3
  /\ BodyLine(SourceLines[1]) /\ BodyLine(SourceLines[2]) /\ BodyLine(SourceLines[3])
  /\ chunks = << Join(<< Strip(SourceLines[1]), Strip(SourceLines[2]) >>, << " " >>) >>

\* ---- C27 ----
\* the number of batches generate_embeddings has finished
BatchesDone == IF emb_pc \in {"batch", "saved"} THEN batch_no ELSE batch_no - 1

\* the number of chunks in the finished batches
ChunksDone ==
  IF BatchesDone * embed_batch_size < Len(emb_chunks)
  THEN BatchesDone * embed_batch_size ELSE Len(emb_chunks)

\* the batch (from 1) of the chunk at input position k (from 1) and the
\* chunk's position (from 0) in it
BatchOf(k) == ((k - 1) \div embed_batch_size) + 1
PositionInBatch(k) == (k - 1) % embed_batch_size

\* the ids in a sequence of chunks or records
IdsOf(s) == {s[k].chunk_id : k \in 1..Len(s)}

\* every chunk of the finished batches is in exactly one of all_embeddings and
\* failed_chunks
ExactlyOneList ==
  /\ Len(all_embeddings) + Len(failed_chunks) = ChunksDone
  /\ IdsOf(all_embeddings) \cup IdsOf(failed_chunks) = IdsOf(SubSeq(emb_chunks, 1, ChunksDone))
  /\ IdsOf(all_embeddings) \cap IdsOf(failed_chunks) = {}

\* a batch that failed did not stop the loop: at the end every batch has been
\* sent to the API and every chunk is accounted for
NoBatchSkipped ==
  emb_pc = "saved" =>
    /\ batch_no = emb_batches /\ ChunksDone = Len(emb_chunks)
    /\ \A b \in 1..emb_batches : CallsFor(b) # << >>

\* the records follow the input order, and the record of a chunk holds the
\* vector the response of its batch has at the chunk's position
OrderedAndPaired ==
  \A ids \in {IdsOf(all_embeddings)} :
  \A pos \in {SelectSeq([k \in 1..Len(emb_chunks) |-> k],
                        LAMBDA k : emb_chunks[k].chunk_id \in ids)} :
    /\ Len(pos) = Len(all_embeddings)
    /\ \A j \in 1..Len(pos) :
         /\ all_embeddings[j].chunk_id = emb_chunks[pos[j]].chunk_id
         /\ \E c \in 1..Len(api_calls) :
              /\ api_calls[c].batch = BatchOf(pos[j]) /\ api_calls[c].outcome = "ok"
              /\ all_embeddings[j].embedding = Vector(c, PositionInBatch(pos[j]))

\* C27: while and after ChunkEmbeddingGenerator.generate_embeddings runs over
\* the batches, whatever batches succeed or fail, every chunk of a finished
\* batch is in exactly one of all_embeddings and failed_chunks, the loop
\* reaches every batch, the records of all_embeddings keep the input order,
\* and each record pairs the id of a chunk with the vector returned at the
\* chunk's position in its batch.
C27_EveryChunkAccounted ==
  emb_variant = "embedding_script" => ExactlyOneList /\ NoBatchSkipped /\ OrderedAndPaired

\* the first of two batches failed, the second was embedded at its second
\* attempt, and the results were saved
C27_Witness ==
  /\ emb_variant = "embedding_script" /\ emb_pc = "saved"
  /\ Len(emb_chunks) = 2 * embed_batch_size - 1
  /\ Len(failed_chunks) = embed_batch_size
  /\ Len(all_embeddings) = embed_batch_size - 1
  /\ Len(CallsFor(2)) = 2

\* ---- C28 ----
\* the steps of process_pdf, in the order of the claim
PipelineSteps == << "extract returned", "chunk", "embed", "store" >>

\* the step of process_pdf logged by this transition, if any, comes after all
\* the steps before it and before all the steps after it
StepsInOrder ==
  Len(proc_log') > Len(proc_log) =>
    \A i \in 1..Len(PipelineSteps) :
      proc_log'[Len(proc_log')].step = PipelineSteps[i] =>
        /\ \A j \in 1..(i - 1) : Executed(file_no, PipelineSteps[j])
        /\ \A j \in i..Len(PipelineSteps) : ~Executed(file_no, PipelineSteps[j])

\* the collection changes only in the store step, after the embedding call
\* returned and with an embedding on every chunk: not when the extraction or
\* the embedding raised
AddedOnlyWithEmbeddings ==
  uploaded_collection' # uploaded_collection =>
    /\ proc_pc = "store" /\ emb_pc = "returned"
    /\ Executed(file_no, "extract returned") /\ ~Executed(file_no, "extract raised")
    /\ \A k \in 1..Len(proc_chunks) : "embedding" \in DOMAIN proc_chunks[k]

\* store_in_chromadb returned: the collection has grown by one entry for each
\* chunk of the document
OneEntryPerChunk ==
  (proc_pc = "store" /\ proc_pc' = "check") =>
    /\ Len(uploaded_collection') = Len(uploaded_collection) + Len(proc_chunks)
    /\ \A k \in 1..Len(proc_chunks) :
         uploaded_collection'[Len(uploaded_collection) + k].id = proc_chunks[k].chunk_id

\* C28: PDFProcessor.process_pdf runs extract, chunk, embed and store in that
\* order; nothing is added to the uploaded_documents collection unless
\* embeddings were obtained for all the chunks of the document, so the
\* collection is unchanged when extraction or embedding raises; and when
\* storing succeeds exactly one entry per chunk is added.
C28_StoreAfterEmbedding ==
  [][pipeline = "process_pdf" => StepsInOrder /\ AddedOnlyWithEmbeddings /\ OneEntryPerChunk]_vars

\* the part that holds: the order of the steps, and no addition without the
\* embeddings of all the chunks
C28_OrderedAndGuarded ==
  [][pipeline = "process_pdf" => StepsInOrder /\ AddedOnlyWithEmbeddings]_vars

\* the second document was stored without an error and the collection still
\* holds the entries of the first document only
C28_StoredNothing ==
  /\ pipeline = "process_pdf" /\ file_no = 2 /\ proc_pc = "check"
  /\ proc_chunks # << >>
  /\ \A k \in 1..Len(uploaded_collection) :
       uploaded_collection[k].metadata.source_pdf = FileName(1)

\* ---- C29 ----
\* the different values in a list of values
ValueSet(vs) == {vs[k] : k \in 1..Len(vs)}

\* for every category, one of the two texts has no value or all the values of
\* both texts are one common value
NothingToReport(us, rs) ==
  \A c \in 1..4 :
    \/ us[c] = << >>
    \/ rs[c] = << >>
    \/ Cardinality(ValueSet(us[c]) \cup ValueSet(rs[c])) = 1

\* the text holds two different values of one category
TwoValuesOfOneCategory(us) == \E c \in 1..4 : Cardinality(ValueSet(us[c])) >= 2

\* C29: _check_numerical_discrepancy returns null exactly when, for every
\* category, one of the two texts has no value or all the values extracted
\* from both texts are one common value; the result for (a, b) is null if and
\* only if the result for (b, a) is null; and a text compared with itself
\* gives a non-null result whenever it holds two different values of one
\* category.
C29_NullExactlyWhenNoDifference ==
  det_pc # "check" =>
    \A us \in {ValuesByCategory(det_uploaded)} :
      \A rs \in {ValuesByCategory(det_reference)} :
        /\ (det_issue = None) <=> NothingToReport(us, rs)
        /\ (det_issue = None) <=>
             (check_numerical_discrepancy(det_reference, det_uploaded) = None)
        /\ (det_uploaded = det_reference /\ TwoValuesOfOneCategory(us)) => det_issue # None

\* a text with the two terms 90 and 95 days was compared with itself and an
\* issue was reported
C29_Witness ==
  /\ det_pc # "check"
  /\ det_uploaded = det_reference
  /\ ValueSet(ExtractedValues(det_uploaded, 1)) = {9000, 9500}
  /\ det_issue # None

\* a text was compared with a text of the same single value and nothing was
\* reported
C29_NullWitness ==
  /\ det_pc # "check"
  /\ ExtractedValues(det_uploaded, 2) = << 8000 >>
  /\ ExtractedValues(det_reference, 2) = << 8000, 8000 >>
  /\ det_issue = None

\* ---- C30 ----
\* the ids id_0 .. id_{n-1}, one per vector, in the order of the vectors
VectorIds(n) == [k \in 1..n |-> << "id_", k - 1 >>]

\* the collection does not exist before the lengths are compared only in the
\* instant between the deletion and the creation; when they are compared it
\* is new and empty, and it stays empty when the function raises
FreshBeforeCheck ==
  /\ ing_pc \in {"load", "fields"} => store = [items |-> << >>]
  /\ (ing_pc = "raised" /\ ing_vectors # ing_rows) =>
       /\ ing_error = "ValueError: Mismatch"
       /\ store = [items |-> << >>]
       /\ ing_batches = << >>

\* a run with a length mismatch never returns normally
MismatchNeverReturns == ing_pc = "returned" => ing_vectors = ing_rows

\* on normal return: one item per vector with the ids id_0..id_{n-1}, and
\* every index was uploaded in exactly one batch, of at most batch_size items
UploadedOncePerVector ==
  ing_pc = "returned" =>
    /\ store # Absent
    /\ [k \in 1..Len(store.items) |-> store.items[k].id] = VectorIds(ing_vectors)
    /\ \A k \in 1..Len(store.items) : store.items[k].embedding = << "vector", k - 1 >>
    /\ \A j \in 1..Len(ing_batches) :
         ing_batches[j].to - ing_batches[j].from \in 1..batch_size
    /\ \A i \in 0..(ing_vectors - 1) :
         Cardinality({j \in 1..Len(ing_batches) :
                        ing_batches[j].from <= i /\ i < ing_batches[j].to}) = 1

\* C30: reingest_with_documents deletes the collection and creates an empty
\* one before it compares the number of vectors with the number of metadata
\* rows; on a mismatch it raises ValueError with no item added, the collection
\* is empty and its previous contents are gone; on normal return the
\* collection holds exactly one item per vector, with the ids id_0..id_{n-1},
\* and every index was uploaded in exactly one batch of at most 1000 items.
C30_FreshCollectionThenUpload ==
  ing_pc # "idle" => FreshBeforeCheck /\ MismatchNeverReturns /\ UploadedOncePerVector

\* 1001 vectors were uploaded in two batches, of 1000 items and of one item
C30_Witness ==
  /\ ing_pc = "returned" /\ ing_vectors = batch_size + 1
  /\ ing_batches = << [from |-> 0, to |-> batch_size],
                      [from |-> batch_size, to |-> batch_size + 1] >>
  /\ Len(store.items) = batch_size + 1

\* a run over an existing collection raised on a length mismatch and left the
\* collection empty
C30_MismatchWitness ==
  /\ ing_pc = "raised" /\ ing_error = "ValueError: Mismatch"
  /\ ing_vectors = batch_size /\ ing_rows = batch_size + 1
  /\ store = [items |-> << >>]

====
